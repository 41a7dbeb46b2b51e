------------------------------- MODULE Library -------------------------------
(***************************************************************************)
(* The game library (src/src/ps5_library.c): the content folders, and what  *)
(* refers to them.  At each start the title gives the folders that earlier  *)
(* builds made under RetroArch's names the names of their systems, with the *)
(* playlists' paths and the folders' settings, and makes the folders that   *)
(* miss.  The library is read from both: the games the playlists list, then *)
(* the games in the content folders that none lists.                        *)
(***************************************************************************)
EXTENDS Naturals, Sequences, FiniteSets

CONSTANTS
    Systems,     \* the platforms, by id: the names of their folders
    Database,    \* each one's RetroArch database: its folder's name in earlier builds
    Stands,      \* the system each name of a folder stands for
    Cores,       \* the cores installed
    Runs,        \* the platforms each core's databases are of
    Style,       \* how a platform's games are looked for: "files", "dos", "scummvm"
    Files,       \* the files that are, or may come, in the content folders
    Name,        \* each one's path in its system's folder, a sequence of names
    Kind,        \* "rom", "index", "track", "firmware", "program", "data" or "other"
    Stem,        \* its name without the extension
    Title,       \* the game each file is of
    Lists,       \* the playlists, in name order
    History,     \* RetroArch's history, one of the builtin lists
    Plans        \* the files before the title starts, and the bounds: how often something
                 \* changes, the title starts anew, a start is cut short and a call fails

VARIABLES
    top,         \* the folder each file is in, None when it is not there
    dirs,        \* the folders in content
    lists,       \* each playlist's entries, and the history's
    settings,    \* the settings of a core for a folder
    pc,          \* how far the title's start is
    pairs,       \* the systems whose folder this start renamed
    merging,     \* the system whose entries are being moved, if any
    names,       \* the entries its old folder had when that began
    moved,       \* the entries moved so far
    left,        \* what is still to be rewritten
    clean,       \* no start was cut short and nothing failed so far
    late,        \* a file came into a folder just when a start renamed or merged it
    budget       \* what may still happen of what the plan allows

\* The names of a folder, and the systems, are gone through in their order.
First(S) == CHOOSE x \in S : TRUE

disk  == <<top, dirs, lists, settings>>
work  == <<pairs, merging, names, moved, left>>
vars  == <<disk, pc, work, clean, late, budget>>

None == "none"
Old(s) == Database[s]
FolderNames == DOMAIN Stands
\* ps5_library_platform: the system a folder's, a playlist's or a database's name stands for.
Platform(name) == Stands[name]

Present     == {f \in Files : top[f] # None}
Path(f)     == <<top[f]>> \o Name[f]
Entry(f)    == Name[f][1]
Entries(d)  == {Entry(f) : f \in {g \in Files : top[g] = d}}
AllLists    == {Lists[i] : i \in 1 .. Len(Lists)} \cup {History}

Paths == {<<d>> \o Name[f] : d \in FolderNames, f \in Files}

\* A system's folder and its old name stand for it alone. Before the title starts, the files
\* are in the folders, no two with one path, and the playlists list files that are there.
ASSUME LibraryAssumption ==
    /\ \A s \in Systems : {s, Database[s]} \subseteq FolderNames
                           /\ Stands[s] = s /\ Stands[Database[s]] = s /\ s # Database[s]
    /\ FolderNames \subseteq STRING \ {None} /\ None \notin Systems
    /\ \A f \in Files : Name[f] \in Seq(STRING) /\ Name[f] # <<>>
    /\ \A c \in Cores : Runs[c] \subseteq Systems
    /\ AllLists \cap Cores = {}
    /\ \A p \in Plans :
          /\ \A b \in {p.scans, p.starts, p.crashes, p.fails} : b \in Nat
          /\ p.dirs \subseteq FolderNames /\ p.settings \subseteq Cores \X FolderNames
          /\ p.top \in [Files -> p.dirs \cup {None}]
          /\ \A f, g \in Files : p.top[f] # None /\ p.top[f] = p.top[g] /\ Name[f] = Name[g] => f = g
          /\ p.lists \in [AllLists -> SUBSET {<<p.top[f]>> \o Name[f] : f \in {g \in Files : p.top[g] # None}}]

TypeOK ==
    /\ top \in [Files -> FolderNames \cup {None}] /\ dirs \subseteq FolderNames
    /\ \A f \in Present : top[f] \in dirs
    /\ lists \in [AllLists -> SUBSET Paths]
    /\ settings \subseteq Cores \X FolderNames
    /\ pc \in {"folders", "move", "back", "rewrite", "make", "ready"}
    /\ pairs \subseteq Systems /\ merging \in Systems \cup {None}
    /\ names \cup moved \subseteq {Entry(f) : f \in Files} /\ {clean, late} \subseteq BOOLEAN
    /\ budget \in [{"scans", "starts", "crashes", "fails"} -> Nat]

Init == \E p \in Plans :
    /\ top = p.top /\ dirs = p.dirs /\ lists = p.lists /\ settings = p.settings
    /\ pc = "folders" /\ pairs = {} /\ merging = None /\ moved = {} /\ left = Systems
    /\ names = {} /\ clean = TRUE /\ late = FALSE
    /\ budget = [scans |-> p.scans, starts |-> p.starts, crashes |-> p.crashes, fails |-> p.fails]

(*------------------- ps5_library_rename_system_folders -------------------*)

Spend(b) == budget[b] > 0 /\ budget' = [budget EXCEPT ![b] = @ - 1]
Fails == Spend("fails") /\ clean' = FALSE
Works == UNCHANGED <<clean, budget>>

\* A folder under its old name becomes its system's, in one rename ...
RenameFolder(s) ==
    /\ pc = "folders" /\ left # {} /\ s = First(left) /\ Old(s) \in dirs /\ s \notin dirs /\ left' = left \ {s}
    /\ \/ /\ top' = [f \in Files |-> IF top[f] = Old(s) THEN s ELSE top[f]]
          /\ dirs' = (dirs \ {Old(s)}) \cup {s} /\ pairs' = pairs \cup {s} /\ Works
       \/ Fails /\ UNCHANGED <<top, dirs, pairs>>
    /\ UNCHANGED <<lists, settings, pc, merging, names, moved, late>>

\* ... or, where that one exists, its entries move there when none of their names is taken.
FreeBlindly(s) == TRUE \* mutant
Free(s) == Entries(Old(s)) \cap Entries(s) = {}

BeginMove(s) ==
    /\ pc = "folders" /\ left # {} /\ s = First(left) /\ Old(s) \in dirs /\ s \in dirs /\ left' = left \ {s}
    /\ IF Free(s) THEN pc' = "move" /\ merging' = s /\ names' = Entries(Old(s)) /\ moved' = {}
       ELSE UNCHANGED <<pc, merging, names, moved>>
    /\ UNCHANGED <<disk, pairs, clean, late, budget>>

\* One that came after the folders' names were read is passed over.
NoFolder(s) ==
    /\ pc = "folders" /\ left # {} /\ s = First(left) /\ (Old(s) \notin dirs \/ late) /\ left' = left \ {s}
    /\ UNCHANGED <<disk, pc, pairs, merging, names, moved, clean, late, budget>>

Put(e, from, to) == top' = [f \in Files |-> IF top[f] = from /\ Entry(f) = e THEN to ELSE top[f]]

\* A file that came there since under an entry's name is written over.
MoveEntry(e) ==
    /\ pc = "move" /\ names \ moved # {} /\ e = First(names \ moved)
    /\ \/ Put(e, Old(merging), merging) /\ moved' = moved \cup {e} /\ UNCHANGED pc /\ Works
       \/ Fails /\ pc' = "back" /\ UNCHANGED <<top, moved>>
    /\ UNCHANGED <<dirs, lists, settings, pairs, merging, names, left, late>>

\* The ones moved before a failure go back, each as it can.
MoveBack(e) ==
    /\ pc = "back" /\ e \in moved /\ moved' = moved \ {e}
    /\ \/ Put(e, merging, Old(merging)) /\ Works
       \/ Fails /\ UNCHANGED top
    /\ UNCHANGED <<dirs, lists, settings, pc, pairs, merging, names, left, late>>

\* rmdir leaves a folder that something came into.
EndMove ==
    /\ \/ pc = "move" /\ names \subseteq moved /\ pairs' = pairs \cup {merging}
                      /\ dirs' = IF Entries(Old(merging)) = {} THEN dirs \ {Old(merging)} ELSE dirs
       \/ pc = "back" /\ moved = {} /\ UNCHANGED <<pairs, dirs>>
    /\ pc' = "folders" /\ merging' = None /\ names' = {} /\ moved' = {}
    /\ UNCHANGED <<top, lists, settings, left, clean, late, budget>>

\* What refers to the folders: every playlist, builtin ones too, and every core's settings.
EndFolders ==
    /\ pc = "folders" /\ left = {} /\ pc' = "rewrite"
    /\ left' = IF pairs = {} THEN {} ELSE AllLists \cup Cores
    /\ UNCHANGED <<disk, pairs, merging, names, moved, clean, late, budget>>

RenamedNot(p) == p \* mutant
Renamed(p) == IF \E s \in pairs : p[1] = Old(s) THEN [p EXCEPT ![1] = Platform(@)] ELSE p

\* rewrite_paths: a file is replaced whole, by a rename, or stays as it was.
RewriteList(l) ==
    /\ pc = "rewrite" /\ left # {} /\ l \in AllLists /\ l = First(left) /\ left' = left \ {l}
    /\ \/ lists' = [lists EXCEPT ![l] = {Renamed(p) : p \in @}] /\ Works
       \/ Fails /\ UNCHANGED lists
    /\ UNCHANGED <<top, dirs, settings, pc, pairs, merging, names, moved, late>>

\* A setting goes with its folder unless the new name has one; a core's own file stays.
Carried(c) == {s \in pairs : c # Old(s) /\ <<c, Old(s)>> \in settings /\ <<c, s>> \notin settings}
RenameSettings(c) ==
    /\ pc = "rewrite" /\ left # {} /\ c \in Cores /\ c = First(left) /\ left' = left \ {c}
    /\ \/ settings' = (settings \ {<<c, Old(s)>> : s \in Carried(c)})
                       \cup {<<c, s>> : s \in Carried(c)} /\ Works
       \/ Fails /\ UNCHANGED settings
    /\ UNCHANGED <<top, dirs, lists, pc, pairs, merging, names, moved, late>>

EndRewrite ==
    /\ pc = "rewrite" /\ left = {} /\ pc' = "make"
    /\ UNCHANGED <<disk, work, clean, late, budget>>

(*-------------------- ps5_library_make_system_folders --------------------*)

Run == UNION {Runs[c] : c \in Cores}
Has(s) == \E d \in dirs : Platform(d) = s

Make ==
    /\ pc = "make" /\ pc' = "ready"
    /\ \/ dirs' = dirs \cup {s \in Run : ~Has(s)} /\ Works
       \/ Fails /\ UNCHANGED dirs
    /\ UNCHANGED <<top, lists, settings, work, late>>

(*----------------------- ps5_library_load_content ------------------------*)

In(f, g) == top[f] = top[g] /\ SubSeq(Name[f], 1, Len(Name[f]) - 1) = SubSeq(Name[g], 1, Len(Name[g]) - 1)
Indexed(f) == \E g \in Present : Kind[g] = "index" /\ In(f, g)

\* A file of a cartridge or disc system: neither firmware nor the track of an index beside it.
IsGame(f) == Kind[f] \in {"rom", "index"} \/ (Kind[f] = "track" /\ ~Indexed(f))

\* A DOS game's folder is started by the program named like it, and holds nothing else.
Named(f) == Kind[f] = "program" /\ Len(Name[f]) > 1 /\ Stem[f] = Name[f][Len(Name[f]) - 1]
Program(f) == Named(f) /\ f = First({g \in Present : Named(g) /\ In(f, g)})
IsDosGame(f) == \/ Program(f)
                \/ Kind[f] = "rom" /\ ~\E g \in Present : Program(g) /\ top[g] = top[f] /\ Entry(g) = Entry(f)

\* A ScummVM game's folder is started from one of its data files.
DataFiles(t, e) == {f \in Present : top[f] = t /\ Entry(f) = e /\ Len(Name[f]) > 1 /\ Kind[f] = "data"}
IsScummGame(f) == LET d == DataFiles(top[f], Entry(f)) IN f \in d /\ f = First(d)

Starts(f) ==
    LET s == Platform(top[f]) IN
    /\ s \in Run
    /\ CASE Style[s] = "files" -> IsGame(f) [] Style[s] = "dos" -> IsDosGame(f) [] OTHER -> IsScummGame(f)

Scanned == {Path(f) : f \in {g \in Present : Starts(g)}}
Listed  == UNION {lists[Lists[i]] : i \in 1 .. Len(Lists)}

At(p) == {f \in Present : Path(f) = p}
Covers(f, g) == Kind[f] = "track" /\ Kind[g] = "index" /\ In(f, g) /\ Stem[f] = Stem[g]
\* drop_listed_tracks: a track listed beside the index of the same name is dropped.
CoveredListed(p) == \E f \in At(p), g \in Present : Covers(f, g) /\ Path(g) \in Listed \* mutant
Covered(p) == \E f \in At(p), g \in Present : Covers(f, g) /\ Path(g) \in Listed \cup Scanned
Shown == {p \in Listed \cup Scanned : ~Covered(p)}

(*--------------------- RetroArch, the user and the title ------------------*)

Changes == Spend("scans") /\ UNCHANGED <<pc, work, clean>>

\* RetroArch's content scan lists a game's files; playing a game puts it in the history.
ListGame(f, i) ==
    /\ pc = "ready" /\ f \in Present /\ Kind[f] \in {"rom", "index", "track"}
    /\ lists' = [lists EXCEPT ![Lists[i]] = @ \cup {Path(f)}]
    /\ UNCHANGED <<top, dirs, settings, late>> /\ Changes

PlayGame(p) ==
    /\ pc = "ready" /\ Changes /\ p \in Shown
    /\ lists' = [lists EXCEPT ![History] = @ \cup {p}]
    /\ UNCHANGED <<top, dirs, settings, late>>

\* A file copied over, into a folder named as the system or as earlier builds named it; the
\* daemon takes uploads in the middle of a start too.
CopyFile(f, s) ==
    /\ top[f] = None
    /\ \E d \in {n \in FolderNames : Platform(n) = s} :
        /\ ~\E g \in Present : top[g] = d /\ Name[g] = Name[f]
        /\ top' = [top EXCEPT ![f] = d] /\ dirs' = dirs \cup {d}
        /\ late' = (late \/ (pc \in {"folders", "move", "back", "rewrite"}
                             /\ (d \notin dirs \/ s \in pairs \cup {merging})))
    /\ UNCHANGED <<lists, settings>> /\ Changes

Begin == pc' = "folders" /\ pairs' = {} /\ merging' = None /\ names' = {} /\ moved' = {} /\ left' = Systems /\ UNCHANGED late

Start ==
    /\ pc = "ready" /\ Spend("starts") /\ Begin /\ UNCHANGED <<disk, clean>>

\* The title is closed, or the console turned off, in the middle of its start.
Crash ==
    /\ pc # "ready" /\ Spend("crashes") /\ Begin /\ clean' = FALSE /\ UNCHANGED disk

Next ==
    \/ \E s \in Systems : RenameFolder(s) \/ BeginMove(s) \/ NoFolder(s)
    \/ \E e \in {Entry(f) : f \in Files} : MoveEntry(e) \/ MoveBack(e)
    \/ EndMove \/ EndFolders \/ (\E l \in AllLists : RewriteList(l))
    \/ (\E c \in Cores : RenameSettings(c)) \/ EndRewrite \/ Make
    \/ \E f \in Files, i \in 1 .. Len(Lists) : ListGame(f, i)
    \/ \E p \in Paths : PlayGame(p)
    \/ \E f \in Files, s \in Systems : CopyFile(f, s)
    \/ Start \/ Crash

Spec == Init /\ [][Next]_vars

(*------------------------------- properties ------------------------------*)

\* move_entries takes no name that is taken, and puts back what it had moved: whatever is
\* renamed, merged, cut short or fails, no file takes another's place.
NoneOverwritten == \A f, g \in Present : f # g => Path(f) # Path(g)

\* ps5_library.h: the folders are renamed "with what refers to them: the paths in the
\* playlists (playlists and playlists/builtin)" and the settings: an entry never names a file
\* that is gone, nor a setting a folder that was renamed.
SettingsFollow == pc = "ready" => \A c \in Cores, s \in pairs :
    <<c, Old(s)>> \in settings => c = Old(s) \/ <<c, s>> \in settings
EntriesFollow == pc = "ready" => \A l \in AllLists : \A p \in lists[l] : At(p) # {}
CleanEntriesFollow == clean => EntriesFollow /\ SettingsFollow

\* Whatever is renamed, merged, copied, scanned, cut short or fails, no file takes another's
\* place, but one that came into a folder just when a start renamed or merged it, which
\* move_entries' check does not see; and, unless a start was cut short or a call failed, the
\* playlists and settings follow their files (ps5_library_rename_system_folders).
LibraryFollows == TypeOK /\ (late \/ NoneOverwritten) /\ CleanEntriesFollow

\* "none of whose names may be taken there" (move_entries), at any time.
NeverOverwritten == NoneOverwritten

\* A track no index beside it is named like ("Game (Track 1).bin" beside "Game.cue").
Loose(f) == Kind[f] = "track" /\ ~\E g \in Present : Covers(f, g)

ShownFor(f, g) == Title[f] = Title[g] /\ top[f] = top[g]

\* A game is shown once, however its files are listed, scanned, renamed and copied: not by
\* its old and its new path, not by two of its programs, and not by its index and the track
\* named like it (drop_listed_tracks goes by the name; another track may be listed).
ShownOnce == (pc = "ready" /\ clean /\ ~late) =>
    LET shown == Shown IN
    \A p, q \in shown : \A f \in At(p), g \in At(q) :
        (ShownFor(f, g) /\ ~Loose(f) /\ ~Loose(g)) => p = q

\* "A disc's track listed beside its index (...): the index is the game, the track is
\* dropped, as the content scan does" (ps5_library.c:1392), whatever the track is named.
TracksAreDropped == (pc = "ready" /\ clean /\ ~late) =>
    LET shown == Shown IN
    \A p, q \in shown : \A f \in At(p), g \in At(q) :
        (ShownFor(f, g) /\ Kind[f] = "index" /\ Kind[g] = "track") => p = q
=============================================================================
