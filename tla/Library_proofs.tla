--------------------------- MODULE Library_proofs ---------------------------
(* Proofs about the library's folders: whatever a start renames, merges, cuts   *)
(* short or fails at, no file takes another's place but one that comes there    *)
(* just then; and when none was cut short and nothing failed, the playlists     *)
(* and the cores' settings follow.  For any systems, files, playlists, plans.   *)
EXTENDS Library, SequenceTheorems, TLAPS

-----------------------------------------------------------------------------
(* The inductive invariant.                                                  *)

\* The path of a file in a folder, and whether one of these names is in it.
Place(d, f) == <<d>> \o Name[f]
Here(d, f) == \E g \in Files : top[g] = d /\ Name[g] = Name[f]

\* What is left is of the step the start is at, and the folder that is merged is a system's.
Steps ==
    /\ pc \in {"folders", "move", "back"} => left \subseteq Systems
    /\ pc = "rewrite" => left \subseteq AllLists \cup Cores
    /\ pc \notin {"move", "back"} => merging = None
    /\ clean => pc # "back"

\* While a folder's entries move, no name is in both folders, and those that moved are in the new
\* one alone, also on their way back: unless a file came into one of them just then.
Merging ==
    pc \in {"move", "back"} =>
      /\ merging \in Systems /\ merging \in dirs /\ Old(merging) \in dirs
      /\ late \/ Entries(Old(merging)) \cap (Entries(merging) \cup moved) = {}

\* Where the entry of a file in a folder may be instead: where the folder's files went or go. It
\* is still in the folder when that is not renamed, or its turn to move is to come.
Became(d, s) == s \in pairs \cup ({merging} \ {None}) /\ d = Old(s)
Stays(d, f) ==
    /\ \A s \in pairs : d # Old(s)
    /\ merging \in Systems /\ d = Old(merging) => Entry(f) \in names \ moved
Found(d, f) == (Here(d, f) /\ Stays(d, f)) \/ \E s \in Systems : Became(d, s) /\ Here(s, f)

\* A playlist that is still to be rewritten names a file that is there or went with its folder; one
\* that has been, or needs not be, names files that are there.
Later(l) == pc \in {"folders", "move"} \/ (pc = "rewrite" /\ l \in left)
Listing ==
    clean => \A l \in AllLists, d \in FolderNames, f \in Files : Place(d, f) \in lists[l] =>
      IF Later(l) THEN Found(d, f) ELSE Here(d, f)

\* A core that has been gone through, or needs not be, has its settings for the new names.
Carries(c) == \A s \in pairs : <<c, Old(s)>> \in settings => c = Old(s) \/ <<c, s>> \in settings
Settings ==
    clean => /\ pc = "rewrite" => \A c \in Cores \ left : Carries(c)
             /\ pc \in {"make", "ready"} => \A c \in Cores : Carries(c)

LibraryInv == TypeOK /\ (late \/ NoneOverwritten) /\ Steps /\ Merging /\ Listing /\ Settings

-----------------------------------------------------------------------------
(* Paths.                                                                    *)

\* A sequence of one element.
LEMMA One ==
  ASSUME NEW S, NEW d \in S
  PROVE  <<d>> \in Seq(S) /\ Len(<<d>>) = 1 /\ <<d>>[1] = d
<1>1. <<d>> \in Seq(S)
  OBVIOUS
<1>2. Len(<<d>>) = 1
  OBVIOUS
<1>3. <<d>>[1] = d
  OBVIOUS
<1>4. QED BY <1>1, <1>2, <1>3

\* A sequence before which an element is put.
LEMMA Before ==
  ASSUME NEW S, NEW d \in S, NEW n \in Seq(S)
  PROVE  LET p == <<d>> \o n IN
         /\ p \in Seq(S) /\ Len(p) = Len(n) + 1 /\ 1 \in 1 .. Len(p) /\ p[1] = d
         /\ \A i \in 1 .. Len(n) : p[i + 1] = n[i]
<1> DEFINE p == <<d>> \o n
<1>0. Len(n) \in Nat
  OBVIOUS
<1>1. /\ p \in Seq(S) /\ Len(p) = Len(<<d>>) + Len(n)
      /\ \A i \in 1 .. Len(<<d>>) + Len(n) : p[i] = IF i <= Len(<<d>>) THEN <<d>>[i] ELSE n[i - Len(<<d>>)]
  BY One, ConcatProperties
<1> HIDE DEF p
<1>2. Len(p) = Len(n) + 1 /\ 1 \in 1 .. Len(p)
  BY <1>0, <1>1, One
<1>3. p[1] = d
  <2>1. 1 \in 1 .. Len(<<d>>) + Len(n)
    BY <1>0, One
  <2>2. p[1] = <<d>>[1]
    BY <1>1, <2>1, One
  <2>3. QED BY <2>2, One
<1>4. ASSUME NEW i \in 1 .. Len(n) PROVE p[i + 1] = n[i]
  <2>1. i + 1 \in 1 .. Len(<<d>>) + Len(n) /\ ~(i + 1 <= Len(<<d>>)) /\ (i + 1) - Len(<<d>>) = i
    BY <1>0, One
  <2>2. QED BY <1>1, <2>1
<1>5. QED BY <1>1, <1>2, <1>3, <1>4 DEF p

\* Two such sequences are one when what they are made of is.
LEMMA SameBefore ==
  ASSUME NEW S, NEW d \in S, NEW e \in S, NEW n \in Seq(S), NEW m \in Seq(S)
  PROVE  <<d>> \o n = <<e>> \o m <=> d = e /\ n = m
<1>0. Len(n) \in Nat /\ Len(m) \in Nat
  OBVIOUS
<1>1. ASSUME <<d>> \o n = <<e>> \o m PROVE d = e /\ n = m
  <2> DEFINE p == <<d>> \o n
             q == <<e>> \o m
  <2>1. /\ Len(p) = Len(n) + 1 /\ p[1] = d /\ \A i \in 1 .. Len(n) : p[i + 1] = n[i]
        /\ Len(q) = Len(m) + 1 /\ q[1] = e /\ \A i \in 1 .. Len(m) : q[i + 1] = m[i]
        /\ p = q
    BY <1>1, Before
  <2> HIDE DEF p, q
  <2>2. d = e /\ Len(n) = Len(m) /\ \A i \in 1 .. Len(n) : n[i] = m[i]
    BY <1>0, <2>1
  <2>3. QED BY <2>2, SeqEqual
<1>2. QED BY <1>1

\* With another first element, the same is behind it.
LEMMA OtherBefore ==
  ASSUME NEW S, NEW d \in S, NEW e \in S, NEW n \in Seq(S)
  PROVE  [<<d>> \o n EXCEPT ![1] = e] = <<e>> \o n
<1> DEFINE p == <<d>> \o n
           q == <<e>> \o n
           r == [p EXCEPT ![1] = e]
<1>0. Len(n) \in Nat
  OBVIOUS
<1>1. /\ p \in Seq(S) /\ Len(p) = Len(n) + 1 /\ 1 \in 1 .. Len(p) /\ \A i \in 1 .. Len(n) : p[i + 1] = n[i]
      /\ q \in Seq(S) /\ Len(q) = Len(n) + 1 /\ q[1] = e /\ \A i \in 1 .. Len(n) : q[i + 1] = n[i]
  BY Before
<1> HIDE DEF p, q
<1>2. r \in Seq(S) /\ Len(r) = Len(p) /\ \A j \in 1 .. Len(p) : r[j] = IF j = 1 THEN e ELSE p[j]
  BY <1>1, ExceptSeq
<1> HIDE DEF r
<1>3. ASSUME NEW j \in 1 .. Len(r) PROVE r[j] = q[j]
  <2>1. CASE j = 1
    BY <1>1, <1>2, <2>1
  <2>2. CASE j # 1
    <3>1. j - 1 \in 1 .. Len(n) /\ (j - 1) + 1 = j
      BY <1>0, <1>1, <1>2, <2>2
    <3>2. p[j] = n[j - 1] /\ q[j] = n[j - 1]
      BY <1>1, <3>1
    <3>3. QED BY <1>2, <2>2, <3>2
  <2>3. QED BY <2>1, <2>2
<1>4. Len(r) = Len(q)
  BY <1>1, <1>2
<1>5. r = q
  BY <1>1, <1>2, <1>3, <1>4, SeqEqual
<1>6. QED BY <1>5 DEF p, q, r

\* The names of folders and files.
Str == STRING

\* The folders' names and the parts of the files' are names.
LEMMA NamesAre == FolderNames \subseteq Str /\ \A f \in Files : Name[f] \in Seq(Str) /\ Name[f] # <<>>
BY LibraryAssumption DEF Str

\* A path says which folder and which name it is of; in another folder only the first part changes.
LEMMA PlaceIs ==
  ASSUME NEW d \in FolderNames, NEW e \in FolderNames, NEW f \in Files
  PROVE  Place(d, f)[1] = d /\ [Place(d, f) EXCEPT ![1] = e] = Place(e, f)
<1>1. Name[f] \in Seq(Str) /\ d \in Str /\ e \in Str
  BY NamesAre
<1>2. (<<d>> \o Name[f])[1] = d
  BY <1>1, Before
<1>3. [<<d>> \o Name[f] EXCEPT ![1] = e] = <<e>> \o Name[f]
  BY <1>1, OtherBefore
<1>4. QED BY <1>2, <1>3 DEF Place

\* Two paths are one when their folders and names are.
LEMMA SamePlace ==
  ASSUME NEW d \in FolderNames, NEW e \in FolderNames, NEW f \in Files, NEW g \in Files
  PROVE  Place(d, f) = Place(e, g) <=> d = e /\ Name[f] = Name[g]
<1>1. Name[f] \in Seq(Str) /\ Name[g] \in Seq(Str) /\ d \in Str /\ e \in Str
  BY NamesAre
<1>2. ASSUME NEW S, NEW x \in S, NEW y \in S, NEW n \in Seq(S), NEW m \in Seq(S), <<x>> \o n = <<y>> \o m
      PROVE  x = y /\ n = m
  BY <1>2, SameBefore
<1>3. \A n, m \in Seq(Str) : <<d>> \o n = <<e>> \o m => d = e /\ n = m
  BY <1>1, <1>2
<1>4. ASSUME <<d>> \o Name[f] = <<e>> \o Name[g] PROVE d = e /\ Name[f] = Name[g]
  BY Zenon, <1>1, <1>3, <1>4
<1>5. QED BY Zenon, <1>4 DEF Place

\* Every path of the library is a file's in a folder, and every such path is one of the library.
LEMMA PathsAre ==
  /\ \A p \in Paths : \E d \in FolderNames, f \in Files : p = Place(d, f)
  /\ \A d \in FolderNames, f \in Files : Place(d, f) \in Paths
<1>1. Paths = {Place(d, f) : d \in FolderNames, f \in Files}
  BY DEF Paths, Place
<1>2. QED BY <1>1

\* An old name is a folder's, of one system, and no system's folder.
LEMMA Names ==
  /\ FolderNames \subseteq STRING /\ None \notin FolderNames /\ None \notin Systems
  /\ \A s \in Systems : s \in FolderNames /\ Old(s) \in FolderNames /\ Stands[s] = s /\ Stands[Old(s)] = s
  /\ \A s, t \in Systems : Old(s) # t /\ (Old(s) = Old(t) => s = t)
<1>1. /\ FolderNames \subseteq STRING /\ None \notin FolderNames /\ None \notin Systems
      /\ \A s \in Systems : s \in FolderNames /\ Old(s) \in FolderNames /\ Stands[s] = s /\ Stands[Old(s)] = s
                            /\ s # Old(s)
  BY LibraryAssumption DEF Old
<1>2. ASSUME NEW s \in Systems, NEW t \in Systems PROVE Old(s) # t /\ (Old(s) = Old(t) => s = t)
  <2>1. Stands[s] = s /\ Stands[t] = t /\ Stands[Old(s)] = s /\ Stands[Old(t)] = t /\ s # Old(s)
    BY <1>1
  <2>2. QED BY <2>1
<1>3. QED BY <1>1, <1>2

-----------------------------------------------------------------------------
(* What the invariant says of the files, in either state of a step.          *)

\* The files of the folders are told apart by folder and name.
Distinct(t) == \A f, g \in Files : t[f] # None /\ t[f] = t[g] /\ Name[f] = Name[g] => f = g

\* The files of a system's old folder have none of these entries, and none of its new folder's.
Apart(t, s, taken) == \A f \in Files : t[f] = Old(s) =>
    Entry(f) \notin taken /\ \A g \in Files : t[g] = s => Entry(g) # Entry(f)

\* What the folders and the files are, and what the title's start is at.
DiskOK ==
    /\ top \in [Files -> FolderNames \cup {None}] /\ dirs \subseteq FolderNames
    /\ \A f \in Files : top[f] # None => top[f] \in dirs
    /\ lists \in [AllLists -> SUBSET Paths] /\ settings \subseteq Cores \X FolderNames
WorkOK ==
    /\ pc \in {"folders", "move", "back", "rewrite", "make", "ready"}
    /\ pairs \subseteq Systems /\ merging \in Systems \cup {None}
    /\ names \cup moved \subseteq {Entry(f) : f \in Files} /\ {clean, late} \subseteq BOOLEAN
    /\ budget \in [{"scans", "starts", "crashes", "fails"} -> Nat]

\* The types in two parts: what is on the disk, and what the start is at.
LEMMA TypeIs == (TypeOK <=> DiskOK /\ WorkOK) /\ (TypeOK' <=> DiskOK' /\ WorkOK')
<1>1. (\A f \in Present : top[f] \in dirs) <=> (\A f \in Files : top[f] # None => top[f] \in dirs)
  BY DEF Present
<1>2. (\A f \in Present : top[f] \in dirs)' <=> (\A f \in Files : top[f] # None => top[f] \in dirs)'
  BY DEF Present
<1>3. TypeOK <=> DiskOK /\ WorkOK
  BY Zenon, <1>1 DEF TypeOK, DiskOK, WorkOK
<1>4. TypeOK' <=> DiskOK' /\ WorkOK'
  BY Zenon, <1>2 DEF TypeOK, DiskOK, WorkOK
<1>5. QED BY <1>3, <1>4

\* No file takes another's place when the files are told apart by folder and name.
LEMMA DistinctPaths ==
  ASSUME NEW t \in [Files -> FolderNames \cup {None}]
  PROVE  (\A f, g \in {h \in Files : t[h] # None} : f # g => Place(t[f], f) # Place(t[g], g)) <=> Distinct(t)
<1>1. ASSUME NEW f \in Files, NEW g \in Files, t[f] # None, t[g] # None
      PROVE  Place(t[f], f) = Place(t[g], g) <=> t[f] = t[g] /\ Name[f] = Name[g]
  BY <1>1, SamePlace
<1>2. QED BY <1>1 DEF Distinct

\* So it is for the library's files, before and after a step.
LEMMA NoneOverwrittenIs ==
  /\ top \in [Files -> FolderNames \cup {None}] => (NoneOverwritten <=> Distinct(top))
  /\ top' \in [Files -> FolderNames \cup {None}] => (NoneOverwritten' <=> Distinct(top'))
<1>1. NoneOverwritten <=> \A f, g \in {h \in Files : top[h] # None} : f # g => Place(top[f], f) # Place(top[g], g)
  BY Zenon DEF NoneOverwritten, Present, Path, Place
<1>2. NoneOverwritten' <=> \A f, g \in {h \in Files : top'[h] # None} : f # g => Place(top'[f], f) # Place(top'[g], g)
  BY Zenon DEF NoneOverwritten, Present, Path, Place
<1>3. QED BY <1>1, <1>2, DistinctPaths

\* A folder's entries, before and after the step; what a merge keeps apart.
LEMMA EntriesAre ==
  ASSUME NEW d, NEW e
  PROVE  /\ e \in Entries(d) <=> \E f \in Files : top[f] = d /\ Entry(f) = e
         /\ e \in Entries(d)' <=> \E f \in Files : top'[f] = d /\ Entry(f) = e
BY DEF Entries

\* What a merge keeps apart, in both forms.
LEMMA ApartIs ==
  ASSUME NEW s
  PROVE  /\ Entries(Old(s)) \cap (Entries(s) \cup moved) = {} <=> Apart(top, s, moved)
         /\ (Entries(Old(s)) \cap (Entries(s) \cup moved))' = {} <=> Apart(top', s, moved')
<1>1. Entries(Old(s)) \cap (Entries(s) \cup moved) = {} <=> Apart(top, s, moved)
  BY EntriesAre DEF Apart
<1>2. (Entries(Old(s)) \cap (Entries(s) \cup moved))' = {} <=> Apart(top', s, moved')
  <2>1. \A e : e \in Entries(Old(s))' <=> \E f \in Files : top'[f] = Old(s) /\ Entry(f) = e
    BY DEF Entries
  <2>2. \A e : e \in Entries(s)' <=> \E f \in Files : top'[f] = s /\ Entry(f) = e
    BY DEF Entries
  <2>3. Entries(Old(s))' \cap (Entries(s)' \cup moved') = {} <=> Apart(top', s, moved')
    BY <2>1, <2>2 DEF Apart
  <2>4. QED BY <2>3
<1>3. QED BY <1>1, <1>2

\* A call or a start that the plan allows is spent.
LEMMA Spends ==
  ASSUME NEW b \in {"scans", "starts", "crashes", "fails"}, WorkOK, Spend(b)
  PROVE  budget' \in [{"scans", "starts", "crashes", "fails"} -> Nat]
BY DEF WorkOK, Spend

\* A step that leaves the disk as it is.
LEMMA DiskStays ==
  ASSUME DiskOK, disk' = disk
  PROVE  DiskOK' /\ top' = top /\ dirs' = dirs /\ lists' = lists /\ settings' = settings
BY DEF DiskOK, disk

-----------------------------------------------------------------------------
(* The invariant in the form the steps are proved in.                        *)

MergeOK ==
    pc \in {"move", "back"} =>
      merging \in Systems /\ merging \in dirs /\ Old(merging) \in dirs /\ (late \/ Apart(top, merging, moved))

Separate == late \/ Distinct(top)

Parts == DiskOK /\ WorkOK /\ Separate /\ Steps /\ MergeOK /\ Listing /\ Settings

\* The two forms are one, before and after a step.
LEMMA Whole == (LibraryInv <=> Parts) /\ (LibraryInv' <=> Parts')
<1>1. LibraryInv <=> Parts
  <2>1. DiskOK => (NoneOverwritten <=> Distinct(top))
    BY NoneOverwrittenIs DEF DiskOK
  <2>2. Merging <=> MergeOK
    BY Zenon, ApartIs DEF Merging, MergeOK
  <2>3. QED BY Zenon, <2>1, <2>2, TypeIs DEF LibraryInv, Parts, Separate
<1>2. LibraryInv' <=> Parts'
  <2>1. DiskOK' => (NoneOverwritten' <=> Distinct(top'))
    BY NoneOverwrittenIs DEF DiskOK
  <2>2. Merging' <=> MergeOK'
    <3>1. (Entries(Old(merging)) \cap (Entries(merging) \cup moved))' = {} <=> Apart(top', merging', moved')
      <4>1. \A e : e \in Entries(Old(merging))' <=> \E f \in Files : top'[f] = Old(merging') /\ Entry(f) = e
        BY DEF Entries, Old
      <4>2. \A e : e \in Entries(merging)' <=> \E f \in Files : top'[f] = merging' /\ Entry(f) = e
        BY DEF Entries
      <4>3. Entries(Old(merging))' \cap (Entries(merging)' \cup moved') = {} <=> Apart(top', merging', moved')
        BY <4>1, <4>2 DEF Apart
      <4>4. QED BY <4>3
    <3>2. QED BY Zenon, <3>1 DEF Merging, MergeOK
  <2>3. (Distinct(top))' <=> Distinct(top')
    BY DEF Distinct
  <2>4. QED BY Zenon, <2>1, <2>2, <2>3, TypeIs DEF LibraryInv, Parts, Separate
<1>3. QED BY <1>1, <1>2

\* A step of the start that leaves the files and what refers to them: what was the folders' is.
LEMMA ListingStays ==
  ASSUME Listing, top' = top, lists' = lists, clean' = clean,
         \A l \in AllLists, d \in FolderNames, f \in Files :
           clean /\ (IF Later(l) THEN Found(d, f) ELSE Here(d, f)) =>
             IF Later(l)' THEN Found(d, f)' ELSE Here(d, f)
  PROVE  Listing'
<1>1. \A d, f : Here(d, f)' <=> Here(d, f)
  BY DEF Here
<1>2. QED BY Zenon, <1>1 DEF Listing

\* What is gone through next is one of them.
LEMMA FirstIsOne == ASSUME NEW S, S # {} PROVE First(S) \in S
BY DEF First

\* A path that is an entry is of a folder and a file.
LEMMA EntryIsPlace ==
  ASSUME DiskOK, NEW l \in AllLists, NEW p \in lists[l]
  PROVE  \E d \in FolderNames, f \in Files : p = Place(d, f)
<1>1. p \in Paths
  BY DEF DiskOK
<1>2. QED BY <1>1, PathsAre

-----------------------------------------------------------------------------
(* The initial states and the steps: ps5_library_rename_system_folders.      *)

\* The plans' initial states are in the invariant.
LEMMA Begins == Init => Parts
<1> SUFFICES ASSUME Init PROVE Parts
  OBVIOUS
<1>1. PICK p \in Plans :
        /\ top = p.top /\ dirs = p.dirs /\ lists = p.lists /\ settings = p.settings
        /\ pc = "folders" /\ pairs = {} /\ merging = None /\ moved = {} /\ left = Systems
        /\ names = {} /\ clean = TRUE /\ late = FALSE
        /\ budget = [scans |-> p.scans, starts |-> p.starts, crashes |-> p.crashes, fails |-> p.fails]
  BY Zenon DEF Init
<1>2. /\ p.scans \in Nat /\ p.starts \in Nat /\ p.crashes \in Nat /\ p.fails \in Nat
      /\ p.dirs \subseteq FolderNames /\ p.settings \subseteq Cores \X FolderNames
      /\ p.top \in [Files -> p.dirs \cup {None}]
      /\ \A f, g \in Files : p.top[f] # None /\ p.top[f] = p.top[g] /\ Name[f] = Name[g] => f = g
      /\ p.lists \in [AllLists -> SUBSET {<<p.top[f]>> \o Name[f] : f \in {g \in Files : p.top[g] # None}}]
  BY LibraryAssumption
<1>3. ASSUME NEW l \in AllLists, NEW q \in p.lists[l]
      PROVE \E f \in Files : p.top[f] \in p.dirs /\ p.top[f] \in FolderNames /\ q = Place(p.top[f], f)
  <2>1. q \in {<<p.top[f]>> \o Name[f] : f \in {g \in Files : p.top[g] # None}}
    BY <1>2, <1>3
  <2>2. PICK f \in Files : p.top[f] # None /\ q = <<p.top[f]>> \o Name[f]
    BY <2>1
  <2>3. p.top[f] \in p.dirs /\ p.top[f] \in FolderNames
    BY <1>2, <2>2
  <2>4. QED BY <2>2, <2>3 DEF Place
<1>4. DiskOK
  <2>1. /\ top \in [Files -> FolderNames \cup {None}] /\ dirs \subseteq FolderNames
        /\ settings \subseteq Cores \X FolderNames
    BY <1>1, <1>2
  <2>2. \A f \in Files : top[f] # None => top[f] \in dirs
    BY <1>1, <1>2
  <2>3. ASSUME NEW l \in AllLists, NEW q \in p.lists[l] PROVE q \in Paths
    BY <1>3, PathsAre
  <2>4. lists \in [AllLists -> SUBSET Paths]
    BY <1>1, <1>2, <2>3
  <2>5. QED BY <2>1, <2>2, <2>4 DEF DiskOK
<1>5. WorkOK
  <2>1. names \cup moved \subseteq {Entry(f) : f \in Files} /\ {clean, late} \subseteq BOOLEAN
    BY <1>1
  <2>2. budget \in [{"scans", "starts", "crashes", "fails"} -> Nat]
    BY <1>1, <1>2
  <2>3. QED BY <1>1, <2>1, <2>2 DEF WorkOK
<1>6. Separate
  BY <1>1, <1>2 DEF Distinct, Separate
<1>7. Steps /\ MergeOK /\ Settings
  BY <1>1 DEF Steps, MergeOK, Settings
<1>8. Listing
  <2>1. ASSUME NEW l \in AllLists, NEW d \in FolderNames, NEW f \in Files, Place(d, f) \in lists[l] PROVE Here(d, f)
    <3>1. PICK g \in Files : top[g] \in FolderNames /\ Place(d, f) = Place(top[g], g)
      BY <1>1, <1>3, <2>1
    <3>2. top[g] = d /\ Name[g] = Name[f]
      BY <3>1, SamePlace
    <3>3. QED BY <3>2 DEF Here
  <2>2. \A d, f : Here(d, f) => Found(d, f)
    BY <1>1, Names DEF Found, Stays
  <2>3. QED BY <2>1, <2>2 DEF Listing
<1>9. QED BY <1>4, <1>5, <1>6, <1>7, <1>8 DEF Parts

\* What a rename or a move leaves: the files that moved are at the end of it, the others stay.
LEMMA RenameFolderKeeps ==
  ASSUME Parts, NEW s \in Systems, RenameFolder(s)
  PROVE  Parts'
<1>1. /\ pc = "folders" /\ pc' = pc /\ merging' = merging /\ names' = names /\ moved' = moved
      /\ lists' = lists /\ settings' = settings /\ late' = late
      /\ Old(s) \in dirs /\ s \notin dirs /\ left' = left \ {s}
      /\ \/ /\ top' = [f \in Files |-> IF top[f] = Old(s) THEN s ELSE top[f]]
            /\ dirs' = (dirs \ {Old(s)}) \cup {s} /\ pairs' = pairs \cup {s} /\ clean' = clean /\ budget' = budget
         \/ top' = top /\ dirs' = dirs /\ pairs' = pairs /\ Spend("fails") /\ clean' = FALSE
  BY Zenon DEF RenameFolder, Works, Fails
<1>2. merging = None /\ left \subseteq Systems /\ DiskOK /\ WorkOK
  BY <1>1 DEF Parts, Steps
<1>3. Steps' /\ MergeOK'
  BY <1>1, <1>2 DEF Steps, MergeOK
<1>4. CASE top' = top /\ dirs' = dirs /\ pairs' = pairs /\ Spend("fails") /\ clean' = FALSE
  <2>1. DiskOK' /\ Separate'
    BY <1>1, <1>4 DEF DiskOK, Distinct, Separate, Parts
  <2>2. WorkOK'
    BY <1>1, <1>2, <1>4, Spends DEF WorkOK
  <2>3. Listing' /\ Settings'
    BY <1>4 DEF Listing, Settings
  <2>4. QED BY <1>3, <2>1, <2>2, <2>3 DEF Parts
<1>5. CASE /\ top' = [f \in Files |-> IF top[f] = Old(s) THEN s ELSE top[f]]
           /\ dirs' = (dirs \ {Old(s)}) \cup {s} /\ pairs' = pairs \cup {s} /\ clean' = clean /\ budget' = budget
  <2>0. s \in FolderNames /\ s # Old(s) /\ s # None /\ Old(s) # None
    BY Names
  <2>1. DiskOK'
    <3>1. top' \in [Files -> FolderNames \cup {None}] /\ dirs' \subseteq FolderNames
      BY <1>2, <1>5, <2>0 DEF DiskOK
    <3>2. \A f \in Files : top'[f] # None => top'[f] \in dirs'
      BY <1>2, <1>5, <2>0 DEF DiskOK
    <3>3. QED BY <1>1, <1>2, <3>1, <3>2 DEF DiskOK
  <2>2. Separate'
    <3>1. ASSUME NEW f \in Files PROVE top[f] # s
      BY <1>1, <1>2, <2>0 DEF DiskOK
    <3>2. ASSUME NEW f \in Files, NEW g \in Files, top'[f] # None, top'[f] = top'[g] PROVE top[f] # None /\ top[f] = top[g]
      BY <1>5, <2>0, <3>1, <3>2
    <3>3. QED BY <1>1, <3>2 DEF Distinct, Separate, Parts
  <2>3. WorkOK'
    BY <1>1, <1>2, <1>5 DEF WorkOK
  <2>5. Listing'
    <3> SUFFICES ASSUME clean, NEW l \in AllLists, NEW d \in FolderNames, NEW f \in Files, Place(d, f) \in lists[l]
                 PROVE  Found(d, f)'
      BY <1>1, <1>5 DEF Listing, Later
    <3>1. Found(d, f)
      BY <1>1 DEF Parts, Listing, Later
    <3>2. CASE Here(d, f) /\ Stays(d, f)
      <4>1. PICK g \in Files : top[g] = d /\ Name[g] = Name[f]
        BY <3>2 DEF Here
      <4>2. CASE d = Old(s)
        <5>1. top'[g] = s
          BY <1>5, <4>1, <4>2
        <5>2. Here(s, f)' /\ Became(d, s)'
          BY <1>5, <4>1, <4>2, <5>1 DEF Here, Became
        <5>3. QED BY <5>2 DEF Found
      <4>3. CASE d # Old(s)
        <5>1. top'[g] = d
          BY <1>5, <4>1, <4>3
        <5>2. Here(d, f)'
          BY <4>1, <5>1 DEF Here
        <5>3. Stays(d, f)'
          BY <1>1, <1>5, <3>2, <4>3 DEF Stays
        <5>4. QED BY <5>2, <5>3 DEF Found
      <4>4. QED BY <4>2, <4>3
    <3>3. CASE \E t \in Systems : Became(d, t) /\ Here(t, f)
      <4>1. PICK t \in Systems : Became(d, t) /\ Here(t, f)
        BY <3>3
      <4>2. Became(d, t)'
        BY <1>1, <1>5, <4>1 DEF Became
      <4>3. PICK g \in Files : top[g] = t /\ Name[g] = Name[f]
        BY <4>1 DEF Here
      <4>4. top'[g] = t
        BY <1>5, <4>3, Names
      <4>5. Here(t, f)'
        BY <4>3, <4>4 DEF Here
      <4>6. QED BY <4>2, <4>5 DEF Found
    <3>4. QED BY <3>1, <3>2, <3>3 DEF Found
  <2>6. Settings'
    BY <1>1 DEF Settings
  <2>7. QED BY <1>3, <2>1, <2>2, <2>3, <2>5, <2>6 DEF Parts
<1>6. QED BY <1>1, <1>4, <1>5

\* A merge that begins found no name in both folders.
LEMMA BeginMoveKeeps ==
  ASSUME Parts, NEW s \in Systems, BeginMove(s)
  PROVE  Parts'
<1>1. /\ pc = "folders" /\ Old(s) \in dirs /\ s \in dirs /\ left' = left \ {s}
      /\ disk' = disk /\ pairs' = pairs /\ clean' = clean /\ late' = late /\ budget' = budget
      /\ IF Free(s) THEN pc' = "move" /\ merging' = s /\ names' = Entries(Old(s)) /\ moved' = {}
         ELSE pc' = pc /\ merging' = merging /\ names' = names /\ moved' = moved
  BY Zenon DEF BeginMove
<1>2. merging = None /\ left \subseteq Systems /\ DiskOK /\ WorkOK
  BY <1>1 DEF Parts, Steps
<1>3. DiskOK' /\ top' = top /\ dirs' = dirs /\ lists' = lists /\ settings' = settings
  BY <1>1, <1>2, DiskStays
<1>4. Separate'
  BY <1>1, <1>3 DEF Distinct, Separate, Parts
<1>5. (pc' = "move" \/ pc' = "folders") /\ left' \subseteq Systems
  BY <1>1, <1>2
<1>6. WorkOK'
  <2>1. CASE Free(s)
    BY <1>1, <1>2, <2>1 DEF WorkOK, Entries
  <2>2. CASE ~Free(s)
    BY <1>1, <1>2, <2>2 DEF WorkOK
  <2>3. QED BY <2>1, <2>2
<1>7. Steps' /\ Settings'
  <2>1. pc' # "move" => merging' = None
    BY <1>1, <1>2, <1>5
  <2>2. QED BY <1>5, <2>1 DEF Steps, Settings
<1>8. MergeOK'
  <2>1. CASE Free(s)
    <3>1. Apart(top, s, {})
      BY <2>1, EntriesAre DEF Free, Apart
    <3>2. QED BY <1>1, <1>3, <2>1, <3>1 DEF MergeOK, Apart
  <2>2. CASE ~Free(s)
    BY <1>1, <2>2 DEF MergeOK
  <2>3. QED BY <2>1, <2>2
<1>9. Listing'
  <2>1. ASSUME NEW d, NEW f, Found(d, f) PROVE Found(d, f)'
    <3>1. CASE \E t \in Systems : Became(d, t) /\ Here(t, f)
      <4>1. PICK t \in Systems : Became(d, t) /\ Here(t, f)
        BY <3>1
      <4>2. t \in pairs
        BY <1>2, <4>1 DEF Became
      <4>3. Became(d, t)' /\ Here(t, f)'
        BY <1>1, <1>3, <4>1, <4>2 DEF Became, Here
      <4>4. QED BY <4>3 DEF Found
    <3>2. CASE Here(d, f) /\ Stays(d, f)
      <4>1. PICK g \in Files : top[g] = d /\ Name[g] = Name[f]
        BY <3>2 DEF Here
      <4>2. d = Old(s) => Entry(f) \in Entries(Old(s))
        BY <4>1 DEF Entries, Entry
      <4>3. Stays(d, f)'
        BY <1>1, <1>2, <3>2, <4>2, Names DEF Stays
      <4>4. Here(d, f)'
        BY <1>3, <3>2 DEF Here
      <4>5. QED BY <4>3, <4>4 DEF Found
    <3>3. QED BY <2>1, <3>1, <3>2 DEF Found
  <2>2. \A l : Later(l) /\ Later(l)'
    BY <1>1, <1>5 DEF Later
  <2>3. QED BY <1>1, <1>3, <2>1, <2>2, ListingStays DEF Parts
<1>10. QED BY <1>3, <1>4, <1>6, <1>7, <1>8, <1>9 DEF Parts

\* A system with no old folder is passed over.
LEMMA NoFolderKeeps ==
  ASSUME Parts, NEW s \in Systems, NoFolder(s)
  PROVE  Parts'
<1>1. /\ pc = "folders" /\ left' = left \ {s} /\ disk' = disk /\ pc' = pc /\ pairs' = pairs /\ merging' = merging
      /\ names' = names /\ moved' = moved /\ clean' = clean /\ late' = late /\ budget' = budget
  BY Zenon DEF NoFolder
<1>2. merging = None /\ left \subseteq Systems /\ DiskOK /\ WorkOK
  BY <1>1 DEF Parts, Steps
<1>3. DiskOK' /\ top' = top /\ dirs' = dirs /\ lists' = lists /\ settings' = settings
  BY <1>1, <1>2, DiskStays
<1>4. Separate' /\ WorkOK'
  BY <1>1, <1>2, <1>3 DEF Distinct, Separate, WorkOK, Parts
<1>5. Steps' /\ MergeOK' /\ Settings'
  BY <1>1, <1>2 DEF Steps, MergeOK, Settings
<1>6. Listing'
  <2>1. \A d, f : Found(d, f) => Found(d, f)'
    BY <1>1, <1>3 DEF Found, Stays, Became, Here
  <2>2. \A l : Later(l) /\ Later(l)'
    BY <1>1 DEF Later
  <2>3. QED BY <1>1, <1>3, <2>1, <2>2, ListingStays DEF Parts
<1>7. QED BY <1>3, <1>4, <1>5, <1>6 DEF Parts

\* An entry that is moved is in no folder but the one it came from, and then in the one it went to.
LEMMA PutKeeps ==
  ASSUME DiskOK, NEW e, NEW from \in FolderNames, NEW to \in FolderNames, from # to,
         to \in dirs, Put(e, from, to), dirs' = dirs, lists' = lists, settings' = settings
  PROVE  /\ DiskOK'
         /\ (Distinct(top) /\ \A f, g \in Files : top[f] = from /\ Entry(f) = e /\ top[g] = to => Entry(g) # e)
               => Distinct(top')
         /\ \A f \in Files : top'[f] = IF top[f] = from /\ Entry(f) = e THEN to ELSE top[f]
<1>1. top' = [f \in Files |-> IF top[f] = from /\ Entry(f) = e THEN to ELSE top[f]] /\ from # None /\ to # None
  BY Names DEF Put
<1>2. \A f \in Files : top'[f] = IF top[f] = from /\ Entry(f) = e THEN to ELSE top[f]
  BY <1>1
<1>3. DiskOK'
  <2>1. top' \in [Files -> FolderNames \cup {None}]
    BY <1>1 DEF DiskOK
  <2>2. \A f \in Files : top'[f] # None => top'[f] \in dirs'
    BY <1>1, <1>2 DEF DiskOK
  <2>3. QED BY <2>1, <2>2 DEF DiskOK
<1>4. ASSUME Distinct(top), \A f, g \in Files : top[f] = from /\ Entry(f) = e /\ top[g] = to => Entry(g) # e
      PROVE  Distinct(top')
  <2>1. ASSUME NEW f \in Files, NEW g \in Files, top'[f] # None, top'[f] = top'[g], Name[f] = Name[g]
        PROVE  top[f] # None /\ top[f] = top[g]
    <3>1. Entry(f) = Entry(g)
      BY <2>1 DEF Entry
    <3>2. CASE top[f] = from /\ Entry(f) = e
      BY <1>1, <1>2, <1>4, <2>1, <3>1, <3>2
    <3>3. CASE ~(top[f] = from /\ Entry(f) = e)
      BY <1>1, <1>2, <1>4, <2>1, <3>1, <3>3
    <3>4. QED BY <3>2, <3>3
  <2>2. QED BY <1>4, <2>1 DEF Distinct
<1>5. QED BY <1>2, <1>3, <1>4

\* An entry that moves keeps the folders apart; its playlist entries are found where it went.
LEMMA MoveEntryKeeps ==
  ASSUME Parts, NEW e \in {Entry(f) : f \in Files}, MoveEntry(e)
  PROVE  Parts'
<1>1. /\ pc = "move" /\ dirs' = dirs /\ lists' = lists /\ settings' = settings /\ pairs' = pairs
      /\ merging' = merging /\ names' = names /\ left' = left /\ late' = late /\ e \in names \ moved
      /\ \/ /\ Put(e, Old(merging), merging) /\ moved' = moved \cup {e} /\ pc' = pc
            /\ clean' = clean /\ budget' = budget
         \/ Spend("fails") /\ clean' = FALSE /\ pc' = "back" /\ top' = top /\ moved' = moved
  <2>1. /\ pc = "move" /\ dirs' = dirs /\ lists' = lists /\ settings' = settings /\ pairs' = pairs
        /\ merging' = merging /\ names' = names /\ left' = left /\ late' = late
        /\ names \ moved # {} /\ e = First(names \ moved)
        /\ \/ /\ Put(e, Old(merging), merging) /\ moved' = moved \cup {e} /\ pc' = pc
              /\ clean' = clean /\ budget' = budget
           \/ Spend("fails") /\ clean' = FALSE /\ pc' = "back" /\ top' = top /\ moved' = moved
    BY Zenon DEF MoveEntry, Works, Fails
  <2>2. e \in names \ moved
    BY <2>1, FirstIsOne
  <2>3. QED BY Zenon, <2>1, <2>2
<1> DEFINE m == merging
<1>2. /\ m \in Systems /\ m \in dirs /\ Old(m) \in dirs /\ (late \/ Apart(top, m, moved)) /\ m # None
      /\ left \subseteq Systems /\ DiskOK /\ WorkOK /\ Separate
  BY <1>1, Names DEF Parts, Steps, MergeOK
<1>3. m \in FolderNames /\ Old(m) \in FolderNames /\ m # Old(m)
  BY <1>2, Names
<1>4. Settings' /\ (pc' = "move" \/ (pc' = "back" /\ clean' = FALSE))
  BY <1>1 DEF Settings, Parts
<1>5. Steps'
  BY <1>1, <1>2, <1>4 DEF Steps
<1>6. CASE Spend("fails") /\ clean' = FALSE /\ pc' = "back" /\ top' = top /\ moved' = moved
  <2>1. DiskOK' /\ Separate' /\ MergeOK'
    BY <1>1, <1>2, <1>6 DEF DiskOK, Distinct, Separate, MergeOK, Apart
  <2>2. WorkOK'
    BY <1>1, <1>2, <1>6, Spends DEF WorkOK
  <2>3. Listing'
    BY <1>6 DEF Listing
  <2>4. QED BY <1>4, <1>5, <2>1, <2>2, <2>3 DEF Parts
<1>7. CASE Put(e, Old(m), m) /\ moved' = moved \cup {e} /\ pc' = pc /\ clean' = clean /\ budget' = budget
  <2>1. Apart(top, m, moved) => \A f, g \in Files : top[f] = Old(m) /\ Entry(f) = e /\ top[g] = m => Entry(g) # e
    BY DEF Apart
  <2>2. /\ DiskOK' /\ Separate'
        /\ \A f \in Files : top'[f] = IF top[f] = Old(m) /\ Entry(f) = e THEN m ELSE top[f]
    BY <1>1, <1>2, <1>3, <1>7, <2>1, PutKeeps DEF Separate
  <2>3. WorkOK'
    BY <1>1, <1>2, <1>7 DEF WorkOK
  <2>4. MergeOK'
    <3>1. ASSUME NEW f \in Files, top'[f] = Old(m) PROVE top[f] = Old(m) /\ Entry(f) # e
      BY <1>3, <2>2, <3>1
    <3>2. ASSUME Apart(top, m, moved), NEW f \in Files, NEW g \in Files, top'[f] = Old(m), top'[g] = m
          PROVE  Entry(g) # Entry(f)
      BY <2>2, <3>1, <3>2 DEF Apart
    <3>3. Apart(top, m, moved) => Apart(top', m, moved')
      BY <1>7, <3>1, <3>2 DEF Apart
    <3>4. QED BY <1>1, <1>2, <3>3 DEF MergeOK, Apart
  <2>5. Listing'
    <3> SUFFICES ASSUME clean, NEW l \in AllLists, NEW d \in FolderNames, NEW f \in Files, Place(d, f) \in lists[l]
                 PROVE  Found(d, f)'
      BY <1>1, <1>7 DEF Listing, Later
    <3>1. Found(d, f)
      BY <1>1 DEF Parts, Listing, Later
    <3>2. CASE Here(d, f) /\ Stays(d, f)
      <4>1. PICK g \in Files : top[g] = d /\ Name[g] = Name[f]
        BY <3>2 DEF Here
      <4>2. Entry(g) = Entry(f)
        BY <4>1 DEF Entry
      <4>3. CASE d = Old(m) /\ Entry(g) = e
        <5>1. top'[g] = m
          BY <2>2, <4>1, <4>3
        <5>2. Here(m, f)' /\ Became(d, m)'
          BY <1>1, <1>2, <4>1, <4>3, <5>1 DEF Here, Became
        <5>3. QED BY <1>1, <1>2, <5>2 DEF Found
      <4>4. CASE ~(d = Old(m) /\ Entry(g) = e)
        <5>1. top'[g] = d
          BY <2>2, <4>1, <4>4
        <5>2. Here(d, f)'
          BY <4>1, <5>1 DEF Here
        <5>3. Stays(d, f)'
          BY <1>1, <1>7, <3>2, <4>2, <4>4 DEF Stays
        <5>4. QED BY <5>2, <5>3 DEF Found
      <4>5. QED BY <4>3, <4>4
    <3>3. CASE \E t \in Systems : Became(d, t) /\ Here(t, f)
      <4>1. PICK t \in Systems : Became(d, t) /\ Here(t, f)
        BY <3>3
      <4>2. Became(d, t)'
        BY <1>1, <4>1 DEF Became
      <4>3. PICK g \in Files : top[g] = t /\ Name[g] = Name[f]
        BY <4>1 DEF Here
      <4>4. t # Old(m)
        BY <1>2, Names
      <4>5. top'[g] = t
        BY <2>2, <4>3, <4>4
      <4>6. Here(t, f)'
        BY <4>3, <4>5 DEF Here
      <4>7. QED BY <4>2, <4>6 DEF Found
    <3>4. QED BY <3>1, <3>2, <3>3 DEF Found
  <2>6. QED BY <1>4, <1>5, <2>2, <2>3, <2>4, <2>5 DEF Parts
<1>8. QED BY <1>1, <1>6, <1>7

\* An entry that goes back finds its place free: nothing came there since.
LEMMA MoveBackKeeps ==
  ASSUME Parts, NEW e \in {Entry(f) : f \in Files}, MoveBack(e)
  PROVE  Parts'
<1>1. /\ pc = "back" /\ pc' = pc /\ dirs' = dirs /\ lists' = lists /\ settings' = settings /\ pairs' = pairs
      /\ merging' = merging /\ names' = names /\ left' = left /\ late' = late /\ e \in moved /\ moved' = moved \ {e}
      /\ \/ Put(e, merging, Old(merging)) /\ clean' = clean /\ budget' = budget
         \/ Spend("fails") /\ clean' = FALSE /\ top' = top
  BY Zenon DEF MoveBack, Works, Fails
<1> DEFINE m == merging
<1>2. /\ m \in Systems /\ m \in dirs /\ Old(m) \in dirs /\ (late \/ Apart(top, m, moved)) /\ clean = FALSE
      /\ left \subseteq Systems /\ DiskOK /\ WorkOK /\ Separate
  BY <1>1 DEF Parts, Steps, MergeOK, WorkOK
<1>3. m \in FolderNames /\ Old(m) \in FolderNames /\ m # Old(m)
  BY <1>2, Names
<1>4. clean' = FALSE
  BY <1>1, <1>2
<1>5. Settings' /\ Listing' /\ Steps'
  BY <1>1, <1>2, <1>4 DEF Settings, Listing, Steps, Parts
<1>6. WorkOK'
  BY <1>1, <1>2, <1>4, Spends DEF WorkOK
<1>7. CASE top' = top
  BY <1>1, <1>2, <1>5, <1>6, <1>7 DEF DiskOK, Distinct, Separate, MergeOK, Apart, Parts
<1>8. CASE Put(e, m, Old(m))
  <2>1. e \in moved /\ Apart(top, m, moved) =>
          \A f, g \in Files : top[f] = m /\ Entry(f) = e /\ top[g] = Old(m) => Entry(g) # e
    BY DEF Apart
  <2>2. /\ DiskOK' /\ Separate'
        /\ \A f \in Files : top'[f] = IF top[f] = m /\ Entry(f) = e THEN Old(m) ELSE top[f]
    BY <1>1, <1>2, <1>3, <1>8, <2>1, PutKeeps DEF Separate
  <2>3. ASSUME Apart(top, m, moved), NEW f \in Files, top'[f] = Old(m), NEW g \in Files, top'[g] = m
        PROVE  Entry(g) # Entry(f)
    BY <1>1, <1>3, <2>2, <2>3 DEF Apart
  <2>4. ASSUME Apart(top, m, moved), NEW f \in Files, top'[f] = Old(m) PROVE Entry(f) \notin moved'
    BY <1>1, <2>2, <2>4 DEF Apart
  <2>5. MergeOK'
    BY <1>1, <1>2, <2>3, <2>4 DEF MergeOK, Apart
  <2>6. QED BY <1>5, <1>6, <2>2, <2>5 DEF Parts
<1>9. QED BY <1>1, <1>7, <1>8

\* The old folder is removed when nothing is left in it.
LEMMA EndMoveKeeps ==
  ASSUME Parts, EndMove
  PROVE  Parts'
<1>1. /\ top' = top /\ lists' = lists /\ settings' = settings /\ left' = left /\ clean' = clean /\ budget' = budget
      /\ pc' = "folders" /\ merging' = None /\ names' = {} /\ moved' = {} /\ late' = late
      /\ \/ /\ pc = "move" /\ names \subseteq moved /\ pairs' = pairs \cup {merging}
            /\ dirs' = IF Entries(Old(merging)) = {} THEN dirs \ {Old(merging)} ELSE dirs
         \/ pc = "back" /\ pairs' = pairs /\ dirs' = dirs
  BY Zenon DEF EndMove
<1> DEFINE m == merging
<1>2. m \in Systems /\ m # None /\ left \subseteq Systems /\ DiskOK /\ WorkOK
  BY <1>1, Names DEF Parts, Steps, MergeOK
<1>3. Separate' /\ Settings' /\ Steps' /\ MergeOK'
  BY <1>1, <1>2 DEF Distinct, Separate, Settings, Steps, MergeOK, Parts
<1>4. WorkOK'
  BY <1>1, <1>2 DEF WorkOK
<1>5. CASE pc = "back" /\ pairs' = pairs /\ dirs' = dirs
  <2>1. clean = FALSE
    BY <1>5 DEF Parts, Steps, WorkOK
  <2>2. DiskOK' /\ Listing'
    BY <1>1, <1>2, <1>5, <2>1 DEF DiskOK, Listing
  <2>3. QED BY <1>3, <1>4, <2>2 DEF Parts
<1>6. CASE /\ pc = "move" /\ names \subseteq moved /\ pairs' = pairs \cup {m}
           /\ dirs' = IF Entries(Old(m)) = {} THEN dirs \ {Old(m)} ELSE dirs
  <2>1. ASSUME NEW f \in Files, top[f] # None PROVE top[f] \in dirs'
    <3>1. top[f] \in dirs
      BY <1>2, <2>1 DEF DiskOK
    <3>2. Entries(Old(m)) = {} => top[f] # Old(m)
      BY EntriesAre
    <3>3. QED BY <1>6, <3>1, <3>2
  <2>2. DiskOK'
    BY <1>1, <1>2, <1>6, <2>1 DEF DiskOK
  <2>3. Listing'
    <3>1. ASSUME NEW d, NEW f, Found(d, f) PROVE Found(d, f)'
      <4>1. CASE Here(d, f) /\ Stays(d, f)
        <5>1. d # Old(m)
          BY <1>2, <1>6, <4>1 DEF Stays
        <5>2. Stays(d, f)' /\ Here(d, f)'
          BY <1>1, <1>6, <4>1, <5>1, Names DEF Stays, Here
        <5>3. QED BY <5>2 DEF Found
      <4>2. CASE \E t \in Systems : Became(d, t) /\ Here(t, f)
        BY <1>1, <1>2, <1>6, <4>2 DEF Found, Became, Here
      <4>3. QED BY <3>1, <4>1, <4>2 DEF Found
    <3>2. \A l : Later(l) /\ Later(l)'
      BY <1>1, <1>6 DEF Later
    <3>3. QED BY <1>1, <3>1, <3>2, ListingStays DEF Parts
  <2>4. QED BY <1>3, <1>4, <2>2, <2>3 DEF Parts
<1>7. QED BY <1>1, <1>5, <1>6

\* With no folder renamed, nothing refers to one.
LEMMA EndFoldersKeeps ==
  ASSUME Parts, EndFolders
  PROVE  Parts'
<1>1. /\ pc = "folders" /\ pc' = "rewrite" /\ left' = (IF pairs = {} THEN {} ELSE AllLists \cup Cores)
      /\ disk' = disk /\ pairs' = pairs /\ merging' = merging /\ names' = names /\ moved' = moved
      /\ clean' = clean /\ late' = late /\ budget' = budget
  BY Zenon DEF EndFolders
<1>2. merging = None /\ DiskOK /\ WorkOK
  BY <1>1 DEF Parts, Steps
<1>3. DiskOK' /\ top' = top /\ dirs' = dirs /\ lists' = lists /\ settings' = settings
  BY <1>1, <1>2, DiskStays
<1>4. Separate' /\ WorkOK'
  BY <1>1, <1>2, <1>3 DEF Distinct, Separate, WorkOK, Parts
<1>5. Steps' /\ MergeOK'
  BY <1>1, <1>2 DEF Steps, MergeOK
<1>6. Settings'
  BY <1>1 DEF Settings, Carries
<1>7. Listing'
  <2>1. ASSUME NEW l \in AllLists, NEW d, NEW f, Found(d, f)
        PROVE  IF Later(l)' THEN Found(d, f)' ELSE Here(d, f)
    <3>1. CASE pairs = {}
      <4>1. ~Later(l)'
        BY <1>1, <3>1 DEF Later
      <4>2. Here(d, f)
        BY <1>2, <2>1, <3>1 DEF Found, Became
      <4>3. QED BY <4>1, <4>2
    <3>2. CASE pairs # {}
      <4>1. Later(l)'
        BY <1>1, <3>2 DEF Later
      <4>2. Found(d, f)'
        BY <1>1, <1>3, <2>1 DEF Found, Stays, Became, Here
      <4>3. QED BY <4>1, <4>2
    <3>3. QED BY <3>1, <3>2
  <2>2. \A l : Later(l)
    BY <1>1 DEF Later
  <2>3. QED BY <1>1, <1>3, <2>1, <2>2, ListingStays DEF Parts
<1>8. QED BY <1>3, <1>4, <1>5, <1>6, <1>7 DEF Parts

-----------------------------------------------------------------------------
(* What refers to the folders: the playlists and the settings.               *)

\* The path in a renamed folder is the same file's in its new one; any other stays.
LEMMA RenamedIs ==
  ASSUME pairs \subseteq Systems, NEW d \in FolderNames, NEW f \in Files
  PROVE  /\ \A s \in pairs : d = Old(s) => Renamed(Place(d, f)) = Place(s, f)
         /\ (\A s \in pairs : d # Old(s)) => Renamed(Place(d, f)) = Place(d, f)
<1>1. Place(d, f)[1] = d
  BY PlaceIs
<1>2. ASSUME NEW s \in pairs, d = Old(s) PROVE Renamed(Place(d, f)) = Place(s, f)
  <2>1. s \in FolderNames /\ Stands[d] = s
    BY <1>2, Names
  <2>2. Renamed(Place(d, f)) = [Place(d, f) EXCEPT ![1] = Platform(Place(d, f)[1])]
    BY <1>1, <1>2 DEF Renamed
  <2>3. Platform(Place(d, f)[1]) = s
    BY <1>1, <2>1 DEF Platform
  <2>4. [Place(d, f) EXCEPT ![1] = s] = Place(s, f)
    BY <2>1, PlaceIs
  <2>5. QED BY <2>2, <2>3, <2>4
<1>3. ASSUME \A s \in pairs : d # Old(s) PROVE Renamed(Place(d, f)) = Place(d, f)
  BY <1>1, <1>3 DEF Renamed
<1>4. QED BY <1>2, <1>3

\* A playlist that was rewritten names files that are there.
LEMMA RewriteListKeeps ==
  ASSUME Parts, NEW l \in AllLists, RewriteList(l)
  PROVE  Parts'
<1>0. l \in left
  <2>1. left # {} /\ l = First(left)
    BY Zenon DEF RewriteList
  <2>2. QED BY <2>1, FirstIsOne
<1>1. /\ pc = "rewrite" /\ pc' = pc /\ l \in left /\ left' = left \ {l} /\ top' = top /\ dirs' = dirs /\ settings' = settings
      /\ pairs' = pairs /\ merging' = merging /\ names' = names /\ moved' = moved /\ late' = late
      /\ \/ lists' = [lists EXCEPT ![l] = {Renamed(p) : p \in @}] /\ clean' = clean /\ budget' = budget
         \/ Spend("fails") /\ clean' = FALSE /\ lists' = lists
  BY Zenon, <1>0 DEF RewriteList, Works, Fails
<1>2. /\ merging = None /\ left \subseteq AllLists \cup Cores /\ DiskOK /\ WorkOK /\ pairs \subseteq Systems
      /\ l \notin Cores
  BY <1>1, LibraryAssumption DEF Parts, Steps, WorkOK
<1>3. Separate' /\ MergeOK'
  BY <1>1 DEF Distinct, Separate, MergeOK, Parts
<1>4. Steps'
  BY <1>1, <1>2 DEF Steps
<1>5. Settings'
  <2>1. Cores \ left' = Cores \ left
    BY <1>1, <1>2
  <2>2. clean' => clean
    BY <1>1
  <2>3. \A c : Carries(c)' <=> Carries(c)
    BY <1>1 DEF Carries
  <2>4. QED BY <1>1, <2>1, <2>2, <2>3 DEF Settings, Parts
<1>6. WorkOK'
  <2>1. budget' \in [{"scans", "starts", "crashes", "fails"} -> Nat]
    BY <1>1, <1>2, Spends DEF WorkOK
  <2>2. {clean', late'} \subseteq BOOLEAN
    BY <1>1, <1>2 DEF WorkOK
  <2>3. QED BY <1>1, <1>2, <2>1, <2>2 DEF WorkOK
<1>7. CASE Spend("fails") /\ clean' = FALSE /\ lists' = lists
  BY <1>1, <1>2, <1>3, <1>4, <1>5, <1>6, <1>7 DEF DiskOK, Listing, Parts
<1>8. CASE lists' = [lists EXCEPT ![l] = {Renamed(p) : p \in @}] /\ clean' = clean /\ budget' = budget
  <2>0. /\ lists'[l] = {Renamed(p) : p \in lists[l]} /\ \A k \in AllLists : k # l => lists'[k] = lists[k]
        /\ lists \in [AllLists -> SUBSET Paths]
    BY <1>2, <1>8 DEF DiskOK
  <2>1. ASSUME NEW p \in Paths PROVE Renamed(p) \in Paths
    <3>1. PICK d \in FolderNames, f \in Files : p = Place(d, f)
      BY PathsAre
    <3>2. \A s \in pairs : s \in FolderNames
      BY <1>2, Names
    <3>3. Renamed(p) = Place(d, f) \/ \E s \in pairs : Renamed(p) = Place(s, f)
      BY <1>2, <3>1, RenamedIs
    <3>4. QED BY <3>2, <3>3, PathsAre
  <2>2. DiskOK'
    <3>1. lists'[l] \in SUBSET Paths
      BY <2>0, <2>1
    <3>2. lists' \in [AllLists -> SUBSET Paths]
      <4>1. lists' = [lists EXCEPT ![l] = lists'[l]]
        BY <1>8, <2>0
      <4>2. QED BY <2>0, <3>1, <4>1
    <3>3. QED BY <1>1, <1>2, <3>2 DEF DiskOK
  <2>3. Listing'
    <3> SUFFICES ASSUME clean, NEW k \in AllLists, NEW d \in FolderNames, NEW f \in Files, Place(d, f) \in lists'[k]
                 PROVE  IF Later(k)' THEN Found(d, f)' ELSE Here(d, f)'
      BY <1>8 DEF Listing
    <3>0. \A e, h : (Here(e, h)' <=> Here(e, h)) /\ (Found(e, h)' <=> Found(e, h))
      BY <1>1 DEF Here, Found, Stays, Became
    <3>1. CASE k # l
      <4>1. IF Later(k) THEN Found(d, f) ELSE Here(d, f)
        BY <2>0, <3>1 DEF Parts, Listing
      <4>2. Later(k) <=> Later(k)'
        BY <1>1, <3>1 DEF Later
      <4>3. QED BY <3>0, <4>1, <4>2
    <3>2. CASE k = l /\ l \in left
      <4>0. ~Later(k)'
        BY <1>1, <3>2 DEF Later
      <4>1. PICK p \in lists[l] : Place(d, f) = Renamed(p)
        BY <2>0, <3>2
      <4>2. PICK e \in FolderNames, h \in Files : p = Place(e, h)
        BY <1>2, <4>1, EntryIsPlace
      <4>3. Found(e, h)
        BY <1>1, <3>2, <4>1, <4>2 DEF Parts, Listing, Later
      <4>4. CASE \E s \in pairs : e = Old(s)
        <5>1. PICK s \in pairs : e = Old(s)
          BY <4>4
        <5>2. s \in FolderNames /\ s \in Systems
          BY <1>2, <5>1, Names
        <5>3. Place(d, f) = Place(s, h)
          BY <1>2, <4>1, <4>2, <5>1, RenamedIs
        <5>4. d = s /\ Name[f] = Name[h]
          BY <5>2, <5>3, SamePlace
        <5>5. PICK t \in Systems : Became(e, t) /\ Here(t, h)
          BY <4>3, <5>1 DEF Found, Stays
        <5>6. t = s
          BY <5>1, <5>2, <5>5, Names DEF Became
        <5>7. Here(d, f)
          BY <5>4, <5>5, <5>6 DEF Here
        <5>8. QED BY <3>0, <4>0, <5>7
      <4>5. CASE \A s \in pairs : e # Old(s)
        <5>1. Place(d, f) = Place(e, h)
          BY <1>2, <4>1, <4>2, <4>5, RenamedIs
        <5>2. d = e /\ Name[f] = Name[h]
          BY <5>1, SamePlace
        <5>3. Here(e, h)
          BY <1>2, <4>3, <4>5 DEF Found, Became
        <5>4. Here(d, f)
          BY <5>2, <5>3 DEF Here
        <5>5. QED BY <3>0, <4>0, <5>4
      <4>6. QED BY <4>4, <4>5
    <3>3. QED BY <1>1, <3>1, <3>2
  <2>4. QED BY <1>3, <1>4, <1>5, <1>6, <2>2, <2>3 DEF Parts
<1>9. QED BY <1>1, <1>7, <1>8

\* A core's settings follow its folders, but for those the new names have, and its own file's.
LEMMA RenameSettingsKeeps ==
  ASSUME Parts, NEW c \in Cores, RenameSettings(c)
  PROVE  Parts'
<1>1. /\ pc = "rewrite" /\ pc' = pc /\ left' = left \ {c} /\ top' = top /\ dirs' = dirs /\ lists' = lists
      /\ pairs' = pairs /\ merging' = merging /\ names' = names /\ moved' = moved /\ late' = late
      /\ \/ /\ settings' = (settings \ {<<c, Old(s)>> : s \in Carried(c)}) \cup {<<c, s>> : s \in Carried(c)}
            /\ clean' = clean /\ budget' = budget
         \/ Spend("fails") /\ clean' = FALSE /\ settings' = settings
  BY Zenon DEF RenameSettings, Works, Fails
<1>2. /\ merging = None /\ left \subseteq AllLists \cup Cores /\ DiskOK /\ WorkOK /\ pairs \subseteq Systems
      /\ c \notin AllLists
  BY <1>1, LibraryAssumption DEF Parts, Steps, WorkOK
<1>3. Separate' /\ MergeOK'
  BY <1>1 DEF Distinct, Separate, MergeOK, Parts
<1>4. Steps'
  BY <1>1, <1>2 DEF Steps
<1>5. WorkOK'
  <2>1. budget' \in [{"scans", "starts", "crashes", "fails"} -> Nat]
    BY <1>1, <1>2, Spends DEF WorkOK
  <2>2. {clean', late'} \subseteq BOOLEAN
    BY <1>1, <1>2 DEF WorkOK
  <2>3. QED BY <1>1, <1>2, <2>1, <2>2 DEF WorkOK
<1>6. CASE Spend("fails") /\ clean' = FALSE /\ settings' = settings
  BY <1>1, <1>2, <1>3, <1>4, <1>5, <1>6 DEF DiskOK, Listing, Settings, Parts
<1>7. CASE /\ settings' = (settings \ {<<c, Old(s)>> : s \in Carried(c)}) \cup {<<c, s>> : s \in Carried(c)}
           /\ clean' = clean /\ budget' = budget
  <2>1. \A s \in pairs : s \in FolderNames
    BY <1>2, Names
  <2>2. Carried(c) \subseteq pairs
    BY DEF Carried
  <2>3. DiskOK'
    <3>1. settings' \subseteq Cores \X FolderNames
      BY <1>2, <1>7, <2>1, <2>2 DEF DiskOK
    <3>2. QED BY <1>1, <1>2, <3>1 DEF DiskOK
  <2>4. Listing'
    <3>1. \A d, f : Found(d, f) => Found(d, f)'
      BY <1>1 DEF Found, Stays, Became, Here
    <3>2. \A l \in AllLists : Later(l) <=> Later(l)'
      BY <1>1, <1>2 DEF Later
    <3>3. QED BY <1>1, <1>7, <3>1, <3>2, ListingStays DEF Parts
  <2>5. Settings'
    <3>1. ASSUME NEW k \in Cores, k # c, NEW d PROVE <<k, d>> \in settings' <=> <<k, d>> \in settings
      BY <1>7, <3>1
    <3>2. \A k \in Cores \ {c} : Carries(k) => Carries(k)'
      BY <1>1, <3>1 DEF Carries
    <3>3. Carries(c)'
      <4>1. SUFFICES ASSUME NEW s \in pairs, <<c, Old(s)>> \in settings', c # Old(s) PROVE <<c, s>> \in settings'
        BY <1>1 DEF Carries
      <4>2. \A t \in Carried(c) : Old(s) # t /\ Old(t) # s
        BY <1>2, <2>2, Names
      <4>3. <<c, Old(s)>> \in settings /\ s \notin Carried(c)
        BY <1>7, <4>1, <4>2
      <4>4. <<c, s>> \in settings
        BY <4>1, <4>3 DEF Carried
      <4>5. QED BY <1>7, <4>2, <4>4
    <3>4. QED BY <1>1, <1>7, <3>2, <3>3 DEF Settings, Parts
  <2>6. QED BY <1>3, <1>4, <1>5, <2>3, <2>4, <2>5 DEF Parts
<1>8. QED BY <1>1, <1>6, <1>7

\* With nothing left to rewrite, every playlist and every core's settings follow.
LEMMA EndRewriteKeeps ==
  ASSUME Parts, EndRewrite
  PROVE  Parts'
<1>1. /\ pc = "rewrite" /\ left = {} /\ pc' = "make" /\ disk' = disk /\ work' = work
      /\ clean' = clean /\ late' = late /\ budget' = budget
  BY Zenon DEF EndRewrite
<1>2. DiskOK /\ WorkOK /\ merging = None
  BY <1>1 DEF Parts, Steps
<1>3. DiskOK' /\ top' = top /\ dirs' = dirs /\ lists' = lists /\ settings' = settings
  BY <1>1, <1>2, DiskStays
<1>4. pairs' = pairs /\ merging' = merging /\ names' = names /\ moved' = moved /\ left' = left
  BY <1>1 DEF work
<1>5. Separate' /\ WorkOK' /\ MergeOK' /\ Steps'
  BY <1>1, <1>2, <1>3, <1>4 DEF Distinct, Separate, WorkOK, MergeOK, Steps, Parts
<1>6. Settings'
  <2>1. \A c : Carries(c)' <=> Carries(c)
    BY <1>3, <1>4 DEF Carries
  <2>2. QED BY <1>1, <2>1 DEF Settings, Parts
<1>7. Listing'
  <2>1. \A l : ~Later(l) /\ ~Later(l)'
    BY <1>1 DEF Later
  <2>2. QED BY <1>1, <1>3, <2>1, ListingStays DEF Parts
<1>8. QED BY <1>3, <1>5, <1>6, <1>7 DEF Parts

-----------------------------------------------------------------------------
(* The folders that miss, the user's games, and the next start.              *)

\* A folder that is made is a system's, and is empty.
LEMMA MakeKeeps ==
  ASSUME Parts, Make
  PROVE  Parts'
<1>1. /\ pc = "make" /\ pc' = "ready" /\ top' = top /\ lists' = lists /\ settings' = settings /\ work' = work
      /\ late' = late
      /\ \/ dirs' = dirs \cup {s \in Run : ~Has(s)} /\ clean' = clean /\ budget' = budget
         \/ Spend("fails") /\ clean' = FALSE /\ dirs' = dirs
  BY Zenon DEF Make, Works, Fails
<1>2. DiskOK /\ WorkOK /\ merging = None
  BY <1>1 DEF Parts, Steps
<1>3. pairs' = pairs /\ merging' = merging /\ names' = names /\ moved' = moved /\ left' = left
  BY <1>1 DEF work
<1>4. Run \subseteq FolderNames
  <2>1. ASSUME NEW s \in Run PROVE s \in Systems
    BY LibraryAssumption DEF Run
  <2>2. QED BY <2>1, Names
<1>5. DiskOK'
  BY <1>1, <1>2, <1>4 DEF DiskOK
<1>6. WorkOK'
  BY <1>1, <1>2, <1>3, Spends DEF WorkOK
<1>7. Separate' /\ MergeOK' /\ Steps'
  BY <1>1, <1>2, <1>3 DEF Distinct, Separate, MergeOK, Steps, Parts
<1>8. Settings'
  <2>1. \A c : Carries(c)' <=> Carries(c)
    BY <1>1, <1>3 DEF Carries
  <2>2. clean' => clean
    BY <1>1
  <2>3. QED BY <1>1, <2>1, <2>2 DEF Settings, Parts
<1>9. Listing'
  <2>1. CASE clean' = FALSE
    BY <2>1 DEF Listing
  <2>2. CASE clean' = clean
    <3>1. \A l : ~Later(l) /\ ~Later(l)'
      BY <1>1 DEF Later
    <3>2. QED BY <1>1, <2>2, <3>1, ListingStays DEF Parts
  <2>3. QED BY <1>1, <2>1, <2>2
<1>10. QED BY <1>5, <1>6, <1>7, <1>8, <1>9 DEF Parts

\* What the library shows is of files that are there, listed or found.
LEMMA ShownIsThere ==
  ASSUME Parts, pc = "ready", clean, NEW p \in Shown
  PROVE  p \in Paths /\ \A d \in FolderNames, f \in Files : p = Place(d, f) => Here(d, f)
<1>1. p \in Listed \/ p \in Scanned
  BY DEF Shown
<1>2. CASE p \in Listed
  <2>1. PICK i \in 1 .. Len(Lists) : p \in lists[Lists[i]]
    BY <1>2 DEF Listed
  <2>2. Lists[i] \in AllLists
    BY DEF AllLists
  <2>3. lists \in [AllLists -> SUBSET Paths]
    BY DEF Parts, DiskOK
  <2>4. p \in Paths
    BY <2>1, <2>2, <2>3
  <2>5. ASSUME NEW d \in FolderNames, NEW f \in Files, p = Place(d, f) PROVE Here(d, f)
    <3>1. ~Later(Lists[i])
      BY DEF Later
    <3>2. QED BY <2>1, <2>2, <2>5, <3>1 DEF Parts, Listing
  <2>6. QED BY <2>4, <2>5
<1>3. CASE p \in Scanned
  <2>1. PICK g \in Present : p = Path(g)
    BY <1>3 DEF Scanned
  <2>2. g \in Files /\ top[g] \in FolderNames /\ p = Place(top[g], g)
    BY <2>1 DEF Present, Path, Place, Parts, DiskOK
  <2>3. p \in Paths
    BY <2>2, PathsAre
  <2>4. ASSUME NEW d \in FolderNames, NEW f \in Files, p = Place(d, f) PROVE Here(d, f)
    <3>1. Place(top[g], g) = Place(d, f) <=> top[g] = d /\ Name[g] = Name[f]
      BY <2>2, SamePlace
    <3>2. QED BY <2>2, <2>4, <3>1 DEF Here
  <2>5. QED BY <2>3, <2>4
<1>4. QED BY <1>1, <1>2, <1>3

\* A scan and a game that is played list files that are there.
LEMMA AddKeeps ==
  ASSUME Parts, NEW l \in AllLists, NEW p \in Paths, pc = "ready", pc' = pc, work' = work, clean' = clean, late' = late,
         Spend("scans"), top' = top, dirs' = dirs, settings' = settings,
         lists' = [lists EXCEPT ![l] = @ \cup {p}],
         clean => \A d \in FolderNames, f \in Files : p = Place(d, f) => Here(d, f)
  PROVE  Parts'
<1>1. DiskOK /\ WorkOK
  BY DEF Parts
<1>2. pairs' = pairs /\ merging' = merging /\ names' = names /\ moved' = moved /\ left' = left
  BY DEF work
<1>3. lists' \in [AllLists -> SUBSET Paths] /\ \A k \in AllLists : lists'[k] = IF k = l THEN lists[k] \cup {p} ELSE lists[k]
  BY <1>1 DEF DiskOK
<1>4. DiskOK' /\ WorkOK'
  BY <1>1, <1>2, <1>3, Spends DEF DiskOK, WorkOK
<1>5. Separate' /\ MergeOK' /\ Steps'
  BY <1>2 DEF Distinct, Separate, MergeOK, Steps, Parts
<1>6. Settings'
  <2>1. \A c : Carries(c)' <=> Carries(c)
    BY <1>2 DEF Carries
  <2>2. QED BY <2>1 DEF Settings, Parts
<1>7. Listing'
  <2> SUFFICES ASSUME clean, NEW k \in AllLists, NEW d \in FolderNames, NEW f \in Files, Place(d, f) \in lists'[k]
               PROVE  Here(d, f)
    BY DEF Listing, Later, Here
  <2>1. CASE Place(d, f) = p
    BY <2>1
  <2>2. CASE Place(d, f) # p
    <3>1. Place(d, f) \in lists[k] /\ ~Later(k)
      BY <1>3, <2>2 DEF Later
    <3>2. QED BY <3>1 DEF Parts, Listing
  <2>3. QED BY <2>1, <2>2
<1>8. QED BY <1>4, <1>5, <1>6, <1>7 DEF Parts

\* A scan lists a file that is there.
LEMMA ListGameKeeps ==
  ASSUME Parts, NEW f \in Files, NEW i \in 1 .. Len(Lists), ListGame(f, i)
  PROVE  Parts'
<1>1. /\ pc = "ready" /\ f \in Present /\ lists' = [lists EXCEPT ![Lists[i]] = @ \cup {Path(f)}]
      /\ top' = top /\ dirs' = dirs /\ settings' = settings /\ Spend("scans")
      /\ pc' = pc /\ work' = work /\ clean' = clean /\ late' = late
  BY Zenon DEF ListGame, Changes
<1>2. Lists[i] \in AllLists
  BY DEF AllLists
<1>3. top[f] \in FolderNames /\ Path(f) = Place(top[f], f)
  BY <1>1 DEF Present, Path, Place, Parts, DiskOK
<1>4. Path(f) \in Paths
  BY <1>3, PathsAre
<1>5. ASSUME NEW d \in FolderNames, NEW g \in Files, Path(f) = Place(d, g) PROVE Here(d, g)
  <2>1. Place(top[f], f) = Place(d, g) <=> top[f] = d /\ Name[f] = Name[g]
    BY <1>3, SamePlace
  <2>2. QED BY <1>3, <1>5, <2>1 DEF Here
<1>6. QED BY <1>1, <1>2, <1>4, <1>5, AddKeeps

\* A game that is played is one the library shows.
LEMMA PlayGameKeeps ==
  ASSUME Parts, NEW p \in Paths, PlayGame(p)
  PROVE  Parts'
<1>1. /\ pc = "ready" /\ p \in Shown /\ lists' = [lists EXCEPT ![History] = @ \cup {p}]
      /\ top' = top /\ dirs' = dirs /\ settings' = settings /\ Spend("scans")
      /\ pc' = pc /\ work' = work /\ clean' = clean /\ late' = late
  BY Zenon DEF PlayGame, Changes
<1>2. History \in AllLists
  BY DEF AllLists
<1>3. clean => \A d \in FolderNames, f \in Files : p = Place(d, f) => Here(d, f)
  BY <1>1, ShownIsThere
<1>4. QED BY <1>1, <1>2, <1>3, AddKeeps

\* A file that is copied takes no name that is taken.
LEMMA CopyFileKeeps ==
  ASSUME Parts, NEW f \in Files, NEW s \in Systems, CopyFile(f, s)
  PROVE  Parts'
<1>1. PICK d \in FolderNames :
        /\ top[f] = None /\ Platform(d) = s /\ ~\E g \in Files : top[g] = d /\ Name[g] = Name[f]
        /\ top' = [top EXCEPT ![f] = d] /\ dirs' = dirs \cup {d} /\ lists' = lists /\ settings' = settings
        /\ late' = (late \/ (pc \in {"folders", "move", "back", "rewrite"}
                             /\ (d \notin dirs \/ s \in pairs \cup {merging})))
        /\ pc' = pc /\ work' = work /\ clean' = clean /\ Spend("scans")
  <2>1. PICK d \in {n \in FolderNames : Platform(n) = s} :
        /\ top[f] = None /\ ~\E g \in Present : top[g] = d /\ Name[g] = Name[f]
        /\ top' = [top EXCEPT ![f] = d] /\ dirs' = dirs \cup {d} /\ lists' = lists /\ settings' = settings
        /\ late' = (late \/ (pc \in {"folders", "move", "back", "rewrite"}
                             /\ (d \notin dirs \/ s \in pairs \cup {merging})))
        /\ pc' = pc /\ work' = work /\ clean' = clean /\ Spend("scans")
    BY Zenon DEF CopyFile, Changes
  <2>2. d \in FolderNames /\ d # None
    BY Names
  <2>3. \A g \in Files : top[g] = d => g \in Present
    BY <2>2 DEF Present
  <2>4. ~\E g \in Files : top[g] = d /\ Name[g] = Name[f]
    BY <2>1, <2>3
  <2>5. QED BY <2>1, <2>2, <2>4
<1>2. DiskOK /\ WorkOK /\ d # None
  BY Names DEF Parts
<1>3. pairs' = pairs /\ merging' = merging /\ names' = names /\ moved' = moved /\ left' = left
  BY <1>1 DEF work
<1>4. \A g \in Files : top'[g] = IF g = f THEN d ELSE top[g]
  BY <1>1, <1>2 DEF DiskOK
<1>5. DiskOK'
  <2>1. top' \in [Files -> FolderNames \cup {None}] /\ dirs' \subseteq FolderNames
    BY <1>1, <1>2 DEF DiskOK
  <2>2. \A g \in Files : top'[g] # None => top'[g] \in dirs'
    BY <1>1, <1>2, <1>4 DEF DiskOK
  <2>3. QED BY <1>1, <1>2, <2>1, <2>2 DEF DiskOK
<1>6. Separate'
  <2>1. ASSUME Distinct(top), NEW g \in Files, NEW h \in Files, top'[g] # None, top'[g] = top'[h], Name[g] = Name[h]
        PROVE  g = h
    BY <1>1, <1>4, <2>1 DEF Distinct
  <2>2. Distinct(top) => Distinct(top')
    BY <2>1 DEF Distinct
  <2>3. late => late'
    BY <1>1
  <2>4. QED BY <2>2, <2>3 DEF Separate, Parts
<1>7. WorkOK'
  <2>1. late' \in BOOLEAN
    BY Zenon, <1>1
  <2>2. budget' \in [{"scans", "starts", "crashes", "fails"} -> Nat]
    BY <1>1, <1>2, Spends
  <2>3. QED BY <1>1, <1>2, <1>3, <2>1, <2>2 DEF WorkOK
<1>8. Steps' /\ MergeOK'
  <2>1. Steps'
    BY <1>1, <1>3 DEF Steps, Parts
  <2>2. SUFFICES ASSUME pc \in {"move", "back"}
                 PROVE  /\ merging \in Systems /\ merging \in dirs' /\ Old(merging) \in dirs'
                        /\ late' \/ Apart(top', merging, moved)
    BY <1>1, <1>3, <2>1 DEF MergeOK, Apart
  <2>3. merging \in Systems /\ merging \in dirs /\ Old(merging) \in dirs /\ (late \/ Apart(top, merging, moved))
    BY <2>2 DEF Parts, MergeOK
  <2>4. CASE late'
    BY <1>1, <2>3, <2>4
  <2>5. CASE ~late'
    <3>1. Apart(top, merging, moved) /\ merging # s
      BY <1>1, <2>2, <2>3, <2>5
    <3>2. d # merging /\ d # Old(merging)
      BY <1>1, <2>3, <3>1, Names DEF Platform
    <3>3. Apart(top', merging, moved)
      BY <1>4, <3>1, <3>2 DEF Apart
    <3>4. QED BY <1>1, <2>3, <3>3
  <2>6. QED BY <2>4, <2>5
<1>9. Settings'
  <2>1. \A c : Carries(c)' <=> Carries(c)
    BY <1>1, <1>3 DEF Carries
  <2>2. QED BY <1>1, <1>3, <2>1 DEF Settings, Parts
<1>10. Listing'
  <2>1. \A e \in FolderNames : \A h : Here(e, h) => Here(e, h)'
    BY <1>1, <1>4, Names DEF Here
  <2>2. \A l : Later(l) <=> Later(l)'
    BY <1>1, <1>3 DEF Later
  <2>3. \A e \in FolderNames, h \in Files : Found(e, h) => Found(e, h)'
    BY <1>1, <1>3, <2>1, Names DEF Found, Stays, Became
  <2>4. QED BY <1>1, <2>1, <2>2, <2>3 DEF Parts, Listing
<1>11. QED BY <1>5, <1>6, <1>7, <1>8, <1>9, <1>10 DEF Parts

\* The next start begins with no folder renamed, whatever cut the one before short.
LEMMA BeginKeeps ==
  ASSUME Parts, Begin, disk' = disk, NEW b \in {"starts", "crashes"}, Spend(b),
         (pc = "ready" /\ clean' = clean) \/ clean' = FALSE
  PROVE  Parts'
<1>1. /\ pc' = "folders" /\ pairs' = {} /\ merging' = None /\ names' = {} /\ moved' = {} /\ left' = Systems
      /\ late' = late
  BY DEF Begin
<1>2. DiskOK /\ WorkOK
  BY DEF Parts
<1>3. DiskOK' /\ top' = top /\ dirs' = dirs /\ lists' = lists /\ settings' = settings
  BY <1>2, DiskStays
<1>4. WorkOK'
  BY <1>1, <1>2, Spends DEF WorkOK
<1>5. Separate' /\ MergeOK' /\ Steps' /\ Settings'
  BY <1>1, <1>3 DEF Distinct, Separate, MergeOK, Steps, Settings, Parts
<1>6. Listing'
  <2>1. CASE clean' = FALSE
    BY <2>1 DEF Listing
  <2>2. CASE pc = "ready" /\ clean' = clean
    <3>1. \A l : ~Later(l)
      BY <2>2 DEF Later
    <3>2. \A d, f : Here(d, f) => Found(d, f)'
      BY <1>1, <1>3, Names DEF Found, Stays, Here
    <3>3. QED BY <1>3, <2>2, <3>1, <3>2, ListingStays DEF Parts
  <2>3. QED BY <2>1, <2>2
<1>7. QED BY <1>3, <1>4, <1>5, <1>6 DEF Parts

-----------------------------------------------------------------------------
(* The theorem.                                                              *)

\* Every step keeps the invariant.
LEMMA Keeps == Parts /\ [Next]_vars => Parts'
<1> SUFFICES ASSUME Parts, [Next]_vars PROVE Parts'
  OBVIOUS
<1>1. ASSUME NEW s \in Systems, RenameFolder(s) \/ BeginMove(s) \/ NoFolder(s) PROVE Parts'
  BY <1>1, RenameFolderKeeps, BeginMoveKeeps, NoFolderKeeps
<1>2. ASSUME NEW e \in {Entry(f) : f \in Files}, MoveEntry(e) \/ MoveBack(e) PROVE Parts'
  BY <1>2, MoveEntryKeeps, MoveBackKeeps
<1>3. CASE EndMove \/ EndFolders \/ EndRewrite \/ Make
  BY <1>3, EndMoveKeeps, EndFoldersKeeps, EndRewriteKeeps, MakeKeeps
<1>4. CASE \E l \in AllLists : RewriteList(l)
  BY <1>4, RewriteListKeeps
<1>5. CASE \E c \in Cores : RenameSettings(c)
  BY <1>5, RenameSettingsKeeps
<1>6. ASSUME NEW f \in Files, NEW i \in 1 .. Len(Lists), ListGame(f, i) PROVE Parts'
  BY <1>6, ListGameKeeps
<1>7. CASE \E p \in Paths : PlayGame(p)
  BY <1>7, PlayGameKeeps
<1>8. ASSUME NEW f \in Files, NEW s \in Systems, CopyFile(f, s) PROVE Parts'
  BY <1>8, CopyFileKeeps
<1>9. CASE Start
  BY <1>9, BeginKeeps DEF Start
<1>10. CASE Crash
  BY <1>10, BeginKeeps DEF Crash
<1>11. CASE UNCHANGED vars
  <2>1. /\ disk' = disk /\ pc' = pc /\ work' = work /\ clean' = clean /\ late' = late /\ budget' = budget
    BY <1>11 DEF vars
  <2>2. /\ top' = top /\ dirs' = dirs /\ lists' = lists /\ settings' = settings
        /\ pairs' = pairs /\ merging' = merging /\ names' = names /\ moved' = moved /\ left' = left
    BY <2>1 DEF disk, work
  <2>3. DiskOK' /\ WorkOK' /\ Separate' /\ Steps' /\ MergeOK'
    BY <2>1, <2>2 DEF Parts, DiskOK, WorkOK, Distinct, Separate, Steps, MergeOK, Apart
  <2>4. Settings'
    <3>1. \A c : Carries(c)' <=> Carries(c)
      BY <2>2 DEF Carries
    <3>2. QED BY <2>1, <2>2, <3>1 DEF Settings, Parts
  <2>5. Listing'
    <3>1. \A d, f : Found(d, f) => Found(d, f)'
      BY <2>2 DEF Found, Stays, Became, Here
    <3>2. \A l : Later(l) <=> Later(l)'
      BY <2>1, <2>2 DEF Later
    <3>3. QED BY <2>1, <2>2, <3>1, <3>2, ListingStays DEF Parts
  <2>6. QED BY <2>3, <2>4, <2>5 DEF Parts
<1>12. QED BY <1>1, <1>2, <1>3, <1>4, <1>5, <1>6, <1>7, <1>8, <1>9, <1>10, <1>11 DEF Next

\* The invariant holds of every library.
THEOREM LibrarySafe == Spec => []LibraryInv
<1>1. Init => LibraryInv
  BY Begins, Whole
<1>2. LibraryInv /\ [Next]_vars => LibraryInv'
  BY Keeps, Whole
<1>3. QED BY <1>1, <1>2, PTL DEF Spec

\* Whatever a start renames, merges, is cut short or fails at, no file takes another's place, but one
\* that came into a folder just then; and unless one was cut short or failed, every entry of a playlist names a file that is there and the
\* cores' settings are those of the folders' new names (ps5_library_rename_system_folders).
THEOREM LibraryIsKept == Spec => []LibraryFollows
<1>1. ASSUME LibraryInv PROVE CleanEntriesFollow
  <2>1. Parts
    BY <1>1, Whole
  <2>2. ASSUME clean, pc = "ready", NEW l \in AllLists, NEW p \in lists[l] PROVE At(p) # {}
    <3>1. PICK d \in FolderNames, f \in Files : p = Place(d, f)
      BY <2>1, EntryIsPlace DEF Parts
    <3>2. Here(d, f)
      BY <2>1, <2>2, <3>1 DEF Parts, Listing, Later
    <3>3. PICK g \in Files : top[g] = d /\ Name[g] = Name[f]
      BY <3>2 DEF Here
    <3>4. g \in Present /\ Path(g) = p
      BY <3>1, <3>3, Names DEF Present, Path, Place
    <3>5. QED BY <3>4 DEF At
  <2>3. ASSUME clean, pc = "ready" PROVE SettingsFollow
    BY <2>1, <2>3 DEF Parts, Settings, Carries, SettingsFollow
  <2>4. QED BY <2>2, <2>3 DEF CleanEntriesFollow, EntriesFollow, SettingsFollow
<1>2. LibraryInv => LibraryFollows
  BY <1>1 DEF LibraryInv, LibraryFollows
<1>3. QED BY LibrarySafe, <1>2, PTL
=============================================================================
