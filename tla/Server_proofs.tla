---------------------------- MODULE Server_proofs ----------------------------
(* Theorems about what the server's requests leave behind, and their proofs: the *)
(* settings the pages and RetroArch share, for any accounts, pages and bounds.   *)
EXTENDS MCServer, TLAPS

-----------------------------------------------------------------------------
(* Settings: what each variable may hold.                                    *)

Signed == Accounts \cup {Set!Unset}
Secret == Accounts \cup {Set!Unset, Set!Empty}
FileOK(f) ==
    /\ DOMAIN f = Set!Keys /\ f.vol \in Set!Values /\ f.user \in Signed
    /\ f.pass \in Secret /\ f.token \in Secret

Booleans ==
    /\ setMarker \in BOOLEAN /\ setInstalled \in BOOLEAN /\ setSaved \in BOOLEAN
    /\ setDisturbed \in BOOLEAN /\ setMet \in BOOLEAN
Options ==
    /\ setPending \in Set!Values /\ setProfile \in Set!Values /\ setOption \in Set!Values
    /\ setWanted.option \in Set!Values
Places == {"off", "apply", "write", "mark", "clear", "start", "menu", "forget", "forgetting",
           "forget ra", "play"}
\* What the server is about to write.
RequestOK ==
    /\ setRequest.kind \in {"none", "account", "quick", "options"}
    /\ setRequest.kind = "none" => setRequest = Set!Idle
    /\ setRequest.kind # "none" => setRequest.account \in Accounts /\ setRequest.option \in Set!Values
    /\ setRequest.kind \in {"account", "quick"} => FileOK(setRequest.to)
    /\ setRequest.kind = "options" => setRequest.to \in Set!Values
Bounds == setLeft \in [edits : 0 .. MaxEdits, starts : Nat, fails : Nat, cores : Nat, early : Nat, late : Nat]
SetTypes ==
    /\ FileOK(setWeb) /\ FileOK(setRa) /\ FileOK(setMem)
    /\ Booleans /\ Options /\ setWanted.account \in Accounts
    /\ setPc \in Places /\ RequestOK /\ Bounds
    /\ setHeld.option \in Set!Values /\ FileOK(setHeld.file)

USE DEF Set!Unset, Set!Empty

LEMMA ValuesAre ==
  /\ MaxEdits \in Nat /\ Set!NoValue \in Set!Values /\ 0 \in Set!Values /\ 0 # Set!NoValue
  /\ \A n \in 0 .. MaxEdits : n \in Set!Values /\ n # Set!NoValue
  /\ Set!Unset \notin Accounts /\ Set!Empty \notin Accounts /\ Set!Unset # Set!Empty
  <1>1. MaxEdits \in Nat
    BY SetAssumption DEF Set!SettingsAssumption
  <1>2. Set!Unset \notin Accounts /\ Set!Empty \notin Accounts
    BY SetAssumption DEF Set!SettingsAssumption
  <1>3. Set!NoValue \in Set!Values /\ 0 \in Set!Values /\ 0 # Set!NoValue
    BY <1>1 DEF Set!Values, Set!NoValue
  <1>4. \A n \in 0 .. MaxEdits : n \in Set!Values /\ n # Set!NoValue
    BY <1>1 DEF Set!Values, Set!NoValue
  <1>5. Set!Unset # Set!Empty
    OBVIOUS
  <1> QED
    BY <1>1, <1>2, <1>3, <1>4, <1>5

LEMMA KeysAre == /\ {"vol", "user", "pass", "token"} = Set!Keys
                 /\ "vol" \in Set!Keys /\ "user" \in Set!Keys /\ "pass" \in Set!Keys /\ "token" \in Set!Keys
  BY DEF Set!Keys

\* What a file read over another holds, key by key.
LEMMA OverHolds ==
  ASSUME NEW f, NEW g, FileOK(f), FileOK(g)
  PROVE  /\ Set!Over(f, g).user = (IF g.user = Set!Unset THEN f.user ELSE g.user)
         /\ Set!Over(f, g).pass = (IF g.pass = Set!Unset THEN f.pass ELSE g.pass)
         /\ Set!Over(f, g).token = (IF g.token = Set!Unset THEN f.token ELSE g.token)
         /\ FileOK(Set!Over(f, g))
  <1>1. \A k \in Set!Keys : Set!Over(f, g)[k] = (IF g[k] = Set!Void(k) THEN f[k] ELSE g[k])
    BY DEF Set!Over
  <1>2. Set!Void("user") = Set!Unset /\ Set!Void("pass") = Set!Unset /\ Set!Void("token") = Set!Unset
    BY DEF Set!Void
  <1>3. DOMAIN Set!Over(f, g) = Set!Keys
    BY DEF Set!Over
  <1> QED
    BY <1>1, <1>2, <1>3, KeysAre DEF FileOK

LEMMA NothingHolds == /\ FileOK(Set!Nothing) /\ Set!Nothing.user = Set!Unset /\ Set!Nothing.pass = Set!Unset
                      /\ Set!Nothing.token = Set!Unset
  <1>1. \A k \in Set!Keys : Set!Nothing[k] = Set!Void(k)
    BY DEF Set!Nothing
  <1>2. DOMAIN Set!Nothing = Set!Keys
    BY DEF Set!Nothing
  <1> QED
    BY <1>1, <1>2, KeysAre, ValuesAre DEF FileOK, Signed, Secret, Set!Void

-----------------------------------------------------------------------------
(* The inductive invariant.                                                  *)

SigningIn == {"forget", "forgetting", "forget ra"}
Runs == {"menu", "play"} \cup SigningIn      \* RetroArch has read its files
Starting == {"off", "apply", "write", "mark", "clear", "start"}

\* webui.cfg never holds a token, only that another account's is gone; and a password there is
\* of the account that is there.
WebShape(f) ==
    /\ f.token \in {Set!Unset, Set!Empty}
    /\ f.pass = Set!Unset \/ (f.pass = f.user /\ f.pass \in Accounts)
    /\ f.token = Set!Empty => f.pass # Set!Unset

\* What the server writes is what it read but for its edit, and the file is as it was read,
\* unless the two processes met over it.
RequestHolds ==
    /\ WebShape(setWeb)
    /\ setRequest.kind \in {"account", "quick"} => WebShape(setRequest.to)
    /\ setRequest.kind \in {"account", "quick"} => setRequest.option = setWanted.option
    /\ setRequest.kind \in {"options", "quick"} => setRequest.account = setWanted.account
    /\ setRequest.kind = "options" => setRequest.option = setRequest.to
    /\ setRequest.kind = "account" =>
         setRequest.to.user = setRequest.account /\ setRequest.to.pass = setRequest.account
    /\ ~setMet /\ setRequest.kind = "account" => setRequest.to.token \in {setWeb.token, Set!Empty}
    /\ ~setMet /\ setRequest.kind = "quick" =>
         /\ setRequest.to.user = setWeb.user /\ setRequest.to.pass = setWeb.pass
         /\ setRequest.to.token = setWeb.token
    /\ ~setMet /\ setPc = "forgetting" =>
         setHeld.file = setWeb /\ setRequest.kind \notin {"account", "quick"}
    /\ ~setMet /\ setPc \in {"write", "mark", "clear"} => setRequest.kind # "options"

\* The option: what is being applied is what is pending, the core's own file has it before it
\* is pending no more, and the running core has the option of that file.
OptionHolds ==
    /\ setOption # Set!NoValue => setPc \in Runs /\ setProfile \in {setOption, Set!NoValue}
    /\ ~setMet /\ setPc \in {"write", "mark", "clear"} =>
         setHeld.option = setPending /\ setPending # Set!NoValue
    /\ ~setMet /\ setPc \in {"mark", "clear"} => setProfile = setHeld.option
    /\ setPc = "clear" => setMarker
    /\ Set!EditKept

\* A file signs in with account a.
SignsIn(f, a) ==
    /\ f.user = a
    /\ f.token = a \/ (f.token \in {Set!Unset, Set!Empty} /\ f.pass = a)

\* The account: the files sign in with it, or RetroArch's memory over webui.cfg does, which is
\* what its own save leaves.
AccountHolds == ~setMet /\ ~setDisturbed =>
    /\ setPc \in Starting \cup {"menu", "forget"} => SignsIn(Set!Over(setRa, setWeb), setWanted.account)
    /\ setPc \in {"menu", "play"} => SignsIn(Set!Over(setMem, setWeb), setWanted.account)
    /\ setPc \in Runs /\ setWeb.user = Set!Unset => setMem.user = setRa.user
    /\ setPc = "menu" /\ setMem.token \notin Accounts => SignsIn(setMem, setWanted.account)
    /\ setPc \in SigningIn =>
         /\ setMem.user = setWanted.account /\ setMem.token = setWanted.account
         /\ setWeb.user \in {Set!Unset, setWanted.account}
    /\ setRequest.kind = "account" /\ setRequest.to.token # Set!Empty =>
         setRequest.account = setWanted.account

\* The password: once RetroArch signed in it holds none, and each file it has been through has none.
PasswordHolds == ~setMet /\ ~setSaved =>
    /\ setPc \in Runs => setMem.pass \notin Accounts
    /\ setPc \notin SigningIn => setRa.pass \notin Accounts /\ setWeb.pass \notin Accounts
    /\ setPc = "forget ra" => setWeb.pass \notin Accounts

SetInv == SetTypes /\ RequestHolds /\ OptionHolds /\ AccountHolds /\ PasswordHolds

USE DEF Set!files, Set!title, Set!notes

LEMMA SpendKeeps == ASSUME Bounds, NEW b \in {"edits", "starts", "fails", "cores", "early", "late"}, Set!Spend(b)
                    PROVE  Bounds'
  <1>1. setLeft[b] \in Nat /\ setLeft[b] > 0 /\ setLeft' = [setLeft EXCEPT ![b] = setLeft[b] - 1]
    BY DEF Bounds, Set!Spend
  <1>2. setLeft[b] - 1 \in Nat
    BY <1>1
  <1>3. CASE b = "edits"
    <2>1. setLeft.edits - 1 \in 0 .. MaxEdits
      <3> DEFINE n == setLeft.edits
      <3>1. n \in 0 .. MaxEdits
        BY DEF Bounds
      <3>2. n > 0
        BY <1>1, <1>3
      <3>3. MaxEdits \in Nat
        BY ValuesAre
      <3> HIDE DEF n
      <3>4. n - 1 \in 0 .. MaxEdits
        BY <3>1, <3>2, <3>3
      <3> QED
        BY <3>4 DEF n
    <2> QED
      BY <1>1, <1>3, <2>1 DEF Bounds
  <1>4. CASE b = "starts"
    BY <1>1, <1>2, <1>4 DEF Bounds
  <1>5. CASE b = "fails"
    BY <1>1, <1>2, <1>5 DEF Bounds
  <1>6. CASE b = "cores"
    BY <1>1, <1>2, <1>6 DEF Bounds
  <1>7. CASE b = "early"
    BY <1>1, <1>2, <1>7 DEF Bounds
  <1>8. CASE b = "late"
    BY <1>1, <1>2, <1>8 DEF Bounds
  <1> QED
    BY <1>3, <1>4, <1>5, <1>6, <1>7, <1>8

LEMMA SetInitHolds == ASSUME Set!Init PROVE SetInv
  <1>1. PICK a \in Accounts : LET kept == [Set!Nothing EXCEPT !.user = a, !.token = a] IN
            /\ setWeb = Set!Nothing /\ setRa = kept /\ setMem = Set!Nothing
            /\ setWanted = [account |-> a, option |-> Set!NoValue]
    BY DEF Set!Init
  <1>2. FileOK(setWeb) /\ FileOK(setMem) /\ setWeb.user = Set!Unset /\ setWeb.pass = Set!Unset
        /\ setWeb.token = Set!Unset
    BY <1>1, NothingHolds
  <1>3. FileOK(setRa) /\ setRa.user = a /\ setRa.token = a /\ setRa.pass = Set!Unset
    BY <1>1, NothingHolds, KeysAre DEF FileOK, Signed, Secret
  <1>4. /\ setWanted.account = a /\ setWanted.option = Set!NoValue /\ setPending = Set!NoValue
        /\ setProfile = Set!NoValue /\ setMarker = FALSE /\ setInstalled = TRUE /\ setPc = "off"
        /\ setOption = Set!NoValue /\ setRequest = Set!Idle /\ setHeld = Set!NotHeld
        /\ setSaved = FALSE /\ setDisturbed = FALSE /\ setMet = FALSE
    BY <1>1 DEF Set!Init
  <1>5. setRequest.kind = "none" /\ setHeld.file = Set!Nothing /\ setHeld.option = Set!NoValue
    BY <1>4 DEF Set!Idle, Set!NotHeld
  <1>6. Bounds
    <2>1. /\ MaxEdits \in Nat /\ MaxStarts \in Nat /\ MaxFails \in Nat /\ MaxCores \in Nat
          /\ EarlyCrash \in Nat /\ LateCrash \in Nat
      BY SetAssumption DEF Set!SettingsAssumption
    <2>2. setLeft = [edits |-> MaxEdits, starts |-> MaxStarts, fails |-> MaxFails, cores |-> MaxCores,
                     early |-> EarlyCrash, late |-> LateCrash]
      BY DEF Set!Init
    <2>3. MaxEdits \in 0 .. MaxEdits
      BY <2>1
    <2> QED
      BY <2>1, <2>2, <2>3 DEF Bounds
  <1>7. SetTypes
    BY <1>1, <1>2, <1>3, <1>4, <1>5, <1>6, ValuesAre, NothingHolds
       DEF SetTypes, Booleans, Options, RequestOK, Places
  <1>8. RequestHolds
    BY <1>2, <1>4, <1>5 DEF RequestHolds, WebShape
  <1>9. OptionHolds
    BY <1>4 DEF OptionHolds, Set!EditKept
  <1>10. AccountHolds
    BY <1>2, <1>3, <1>4, <1>5, OverHolds DEF AccountHolds, SignsIn, Runs, SigningIn
  <1>11. PasswordHolds
    BY <1>2, <1>3, <1>4, ValuesAre DEF PasswordHolds, Runs, SigningIn
  <1> QED
    BY <1>7, <1>8, <1>9, <1>10, <1>11 DEF SetInv

-----------------------------------------------------------------------------
(* What each step writes.                                                    *)

\* Words of a file that are edited one at a time.
LEMMA EditedFile ==
  ASSUME NEW f, FileOK(f), NEW u \in Signed, NEW p \in Secret, NEW t \in Secret, NEW v \in Set!Values
  PROVE  /\ FileOK([f EXCEPT !.user = u, !.pass = p, !.token = t])
         /\ FileOK([f EXCEPT !.token = t, !.pass = p])
         /\ FileOK([f EXCEPT !.vol = v])
  BY KeysAre DEF FileOK

LEMMA WithoutHolds ==
  ASSUME NEW f, FileOK(f), NEW gone \in {{"pass"}, {"pass", "token"}}
  PROVE  /\ FileOK(Set!Without(f, gone)) /\ Set!Without(f, gone).user = f.user
         /\ Set!Without(f, gone).pass = Set!Unset
         /\ Set!Without(f, gone).token = IF "token" \in gone THEN Set!Unset ELSE f.token
  <1>1. \A k \in Set!Keys : Set!Without(f, gone)[k] = (IF k \in gone THEN Set!Void(k) ELSE f[k])
    BY DEF Set!Without
  <1>2. DOMAIN Set!Without(f, gone) = Set!Keys
    BY DEF Set!Without
  <1> QED
    BY <1>1, <1>2, KeysAre DEF FileOK, Set!Void, Signed, Secret

\* A request the server reads its files for: what it will write.
LEMMA ReadWrites ==
  ASSUME SetInv, NEW kind, NEW to, NEW account, NEW value, kind # "none", Set!Read(kind, to, account, value)
  PROVE  /\ setRequest.kind = "none" /\ setRequest'.kind = kind /\ setRequest'.to = to
         /\ setRequest'.account = account /\ setRequest'.option = value
         /\ setMet' = (setMet \/ Set!TitleHolds(kind)) /\ setMet' \in BOOLEAN /\ Bounds'
         /\ UNCHANGED <<setWeb, setRa, setPending, setProfile, setMarker, setInstalled, setPc, setHeld,
                        setMem, setOption, setWanted, setSaved, setDisturbed>>
  <1>1. setRequest.kind = "none"
    BY DEF Set!Read, Set!Idle
  <1>2. Bounds'
    BY SpendKeeps DEF Set!Read, SetInv, SetTypes
  <1>3. setMet' = (setMet \/ Set!TitleHolds(kind)) /\ setMet' \in BOOLEAN
    BY DEF Set!Read
  <1> QED
    BY <1>1, <1>2, <1>3 DEF Set!Read

\* The account's edit: what webui.cfg will hold.
LEMMA SigningHolds ==
  ASSUME SetInv, NEW a \in Accounts
  PROVE  LET to == Set!Signing(setWeb, a) IN
         /\ FileOK(to) /\ to.user = a /\ to.pass = a /\ WebShape(to)
         /\ to.token = IF Set!Global.user # a \/ Set!Global.pass # a THEN Set!Empty ELSE setWeb.token
  <1> DEFINE t  == IF Set!Global.user # a \/ Set!Global.pass # a THEN Set!Empty ELSE setWeb.token
             to == [setWeb EXCEPT !.user = a, !.pass = a, !.token = t]
  <1>1. Set!Signing(setWeb, a) = to
    BY DEF Set!Signing
  <1>2. FileOK(setWeb) /\ WebShape(setWeb) /\ t \in Secret /\ t \in {Set!Unset, Set!Empty}
    BY DEF SetInv, SetTypes, RequestHolds, FileOK, Secret, WebShape
  <1>3. a \in Signed /\ a \in Secret /\ a # Set!Unset
    BY ValuesAre DEF Signed, Secret
  <1> HIDE DEF t
  <1>4. FileOK(to)
    BY <1>2, <1>3, EditedFile, ValuesAre
  <1>5. to.user = a /\ to.pass = a /\ to.token = t
    BY <1>2, KeysAre DEF FileOK
  <1> QED
    BY <1>1, <1>2, <1>3, <1>4, <1>5 DEF WebShape, t
-----------------------------------------------------------------------------
(* The server's steps.                                                       *)

\* Whose account the files name, whatever the title is doing.
LEMMA OwnerIs ==
  ASSUME SetInv, ~setMet, ~setDisturbed PROVE Set!Over(setRa, setWeb).user = setWanted.account
  <1>1. FileOK(setRa) /\ FileOK(setWeb) /\ FileOK(setMem) /\ setPc \in Places
    BY DEF SetInv, SetTypes
  <1>2. AccountHolds
    BY DEF SetInv
  <1>3. CASE setPc \in Starting \cup {"menu", "forget"}
    BY <1>2, <1>3 DEF AccountHolds, SignsIn
  <1>4. CASE setPc = "play"
    <2>1. Set!Over(setMem, setWeb).user = setWanted.account
      BY <1>2, <1>4 DEF AccountHolds, SignsIn
    <2>2. setWeb.user = Set!Unset => setMem.user = setRa.user
      BY <1>2, <1>4 DEF AccountHolds, Runs
    <2> QED
      BY <1>1, <2>1, <2>2, OverHolds
  <1>5. CASE setPc \in SigningIn
    <2>1. /\ setMem.user = setWanted.account /\ setWeb.user \in {Set!Unset, setWanted.account}
          /\ setWeb.user = Set!Unset => setMem.user = setRa.user
      BY <1>2, <1>5 DEF AccountHolds, Runs
    <2> QED
      BY <1>1, <2>1, OverHolds
  <1> QED
    BY <1>1, <1>3, <1>4, <1>5 DEF Places, Starting, SigningIn

\* The effective account before RetroArch reads the files is theirs too.
LEMMA GlobalUser ==
  ASSUME SetInv, NEW a \in Accounts, Set!Global.user = a PROVE Set!Over(setRa, setWeb).user = a
  <1> DEFINE base == [Set!Nothing EXCEPT !.vol = 0, !.user = Set!Empty, !.pass = Set!Empty]
  <1>1. base.user = Set!Empty
    <2>1. ASSUME NEW f, DOMAIN f = Set!Keys, NEW v, NEW u, NEW q
          PROVE  [f EXCEPT !.vol = v, !.user = u, !.pass = q].user = u
      BY <2>1, KeysAre
    <2>2. DOMAIN Set!Nothing = Set!Keys
      BY DEF Set!Nothing
    <2> QED
      BY <2>1, <2>2
  <1> HIDE DEF base
  <1>2. Set!Global = Set!Over(Set!Over(base, setRa), setWeb)
    BY DEF Set!Global, base
  <1>3. FileOK(setRa) /\ FileOK(setWeb)
    BY DEF SetInv, SetTypes
  <1>4. \A k \in Set!Keys : Set!Over(base, setRa)[k] = (IF setRa[k] = Set!Void(k) THEN base[k] ELSE setRa[k])
    BY DEF Set!Over
  <1>5. \A k \in Set!Keys : Set!Global[k] = (IF setWeb[k] = Set!Void(k) THEN Set!Over(base, setRa)[k] ELSE setWeb[k])
    BY <1>2 DEF Set!Over
  <1>6. Set!Void("user") = Set!Unset /\ "user" \in Set!Keys
    BY KeysAre DEF Set!Void
  <1>7. Set!Over(base, setRa).user = (IF setRa.user = Set!Unset THEN Set!Empty ELSE setRa.user)
    BY <1>1, <1>4, <1>6
  <1>8. Set!Global.user = (IF setWeb.user = Set!Unset THEN Set!Over(base, setRa).user ELSE setWeb.user)
    BY <1>5, <1>6
  <1>9. Set!Over(setRa, setWeb).user = (IF setWeb.user = Set!Unset THEN setRa.user ELSE setWeb.user)
    BY <1>3, OverHolds
  <1>10. Set!Empty # a
    BY ValuesAre
  <1> QED
    BY <1>7, <1>8, <1>9, <1>10

LEMMA EditAccountKeeps == ASSUME SetInv, NEW p, NEW a \in Accounts, Set!EditAccount(p, a) PROVE SetInv'
  <1> DEFINE to == Set!Signing(setWeb, a)
  <1>1. Set!Read("account", to, a, setWanted.option)
    BY DEF Set!EditAccount
  <1>2. FileOK(to) /\ to.user = a /\ to.pass = a /\ WebShape(to)
        /\ to.token \in {setWeb.token, Set!Empty}
        /\ (to.token # Set!Empty => Set!Global.user = a)
    BY SigningHolds
  <1> HIDE DEF to
  <1>3. /\ setRequest.kind = "none" /\ setRequest'.kind = "account" /\ setRequest'.to = to
        /\ setRequest'.account = a /\ setRequest'.option = setWanted.option
        /\ setMet' = (setMet \/ setPc = "forgetting") /\ setMet' \in BOOLEAN /\ Bounds'
        /\ UNCHANGED <<setWeb, setRa, setPending, setProfile, setMarker, setInstalled, setPc, setHeld,
                       setMem, setOption, setWanted, setSaved, setDisturbed>>
    BY <1>1, ReadWrites DEF Set!TitleHolds
  <1>4. SetTypes'
    BY <1>2, <1>3 DEF SetInv, SetTypes, Booleans, Options, RequestOK
  <1>5. RequestHolds'
    BY <1>2, <1>3 DEF SetInv, RequestHolds
  <1>6. OptionHolds'
    BY <1>3 DEF SetInv, OptionHolds, Set!EditKept
  <1>7. AccountHolds'
    <2>1. ~setMet /\ ~setDisturbed /\ to.token # Set!Empty => a = setWanted.account
      BY <1>2, OwnerIs, GlobalUser
    <2> QED
      BY <1>3, <2>1 DEF SetInv, AccountHolds
  <1>8. PasswordHolds'
    BY <1>3 DEF SetInv, PasswordHolds
  <1> QED
    BY <1>4, <1>5, <1>6, <1>7, <1>8 DEF SetInv

LEMMA EditQuickKeeps == ASSUME SetInv, Set!EditQuick PROVE SetInv'
  <1> DEFINE to == [setWeb EXCEPT !.vol = setLeft.edits]
  <1>1. Set!Read("quick", to, setWanted.account, setWanted.option)
    BY DEF Set!EditQuick
  <1>2. setLeft.edits \in Set!Values
    BY ValuesAre DEF SetInv, SetTypes, Bounds
  <1>3. FileOK(to) /\ to.user = setWeb.user /\ to.pass = setWeb.pass /\ to.token = setWeb.token
    BY <1>2, KeysAre DEF SetInv, SetTypes, FileOK
  <1> HIDE DEF to
  <1>4. /\ setRequest.kind = "none" /\ setRequest'.kind = "quick" /\ setRequest'.to = to
        /\ setRequest'.account = setWanted.account /\ setRequest'.option = setWanted.option
        /\ setMet' = (setMet \/ setPc = "forgetting") /\ setMet' \in BOOLEAN /\ Bounds'
        /\ UNCHANGED <<setWeb, setRa, setPending, setProfile, setMarker, setInstalled, setPc, setHeld,
                       setMem, setOption, setWanted, setSaved, setDisturbed>>
    BY <1>1, ReadWrites DEF Set!TitleHolds
  <1>5. SetTypes'
    BY <1>3, <1>4 DEF SetInv, SetTypes, Booleans, Options, RequestOK
  <1>6. RequestHolds'
    BY <1>3, <1>4 DEF SetInv, RequestHolds, WebShape
  <1>7. OptionHolds'
    BY <1>4 DEF SetInv, OptionHolds, Set!EditKept
  <1>8. AccountHolds'
    BY <1>4 DEF SetInv, AccountHolds
  <1>9. PasswordHolds'
    BY <1>4 DEF SetInv, PasswordHolds
  <1> QED
    BY <1>5, <1>6, <1>7, <1>8, <1>9 DEF SetInv

LEMMA EditOptionKeeps == ASSUME SetInv, NEW p, Set!EditOption(p) PROVE SetInv'
  <1> DEFINE n == setLeft.edits
  <1>1. Set!Read("options", n, setWanted.account, n)
    BY DEF Set!EditOption
  <1>2. n \in Set!Values
    BY ValuesAre DEF SetInv, SetTypes, Bounds
  <1> HIDE DEF n
  <1>3. /\ setRequest.kind = "none" /\ setRequest'.kind = "options" /\ setRequest'.to = n
        /\ setRequest'.account = setWanted.account /\ setRequest'.option = n
        /\ setMet' = (setMet \/ setPc \in {"write", "mark", "clear"}) /\ setMet' \in BOOLEAN /\ Bounds'
        /\ UNCHANGED <<setWeb, setRa, setPending, setProfile, setMarker, setInstalled, setPc, setHeld,
                       setMem, setOption, setWanted, setSaved, setDisturbed>>
    BY <1>1, ReadWrites DEF Set!TitleHolds
  <1>4. SetTypes'
    BY <1>2, <1>3 DEF SetInv, SetTypes, Booleans, Options, RequestOK
  <1>5. RequestHolds'
    BY <1>3 DEF SetInv, RequestHolds
  <1>6. OptionHolds'
    BY <1>3 DEF SetInv, OptionHolds, Set!EditKept
  <1>7. AccountHolds'
    BY <1>3 DEF SetInv, AccountHolds
  <1>8. PasswordHolds'
    BY <1>3 DEF SetInv, PasswordHolds
  <1> QED
    BY <1>4, <1>5, <1>6, <1>7, <1>8 DEF SetInv

LEMMA RefuseKeeps == ASSUME SetInv, Set!Refuse PROVE SetInv'
  <1>0. setRequest'.kind = "none" /\ setRequest' = Set!Idle
    BY DEF Set!Refuse, Set!Idle
  <1>1. Bounds'
    BY DEF Set!Refuse, SetInv, SetTypes, Bounds
  <1>2. SetTypes'
    BY <1>1, <1>0 DEF SetInv, SetTypes, Booleans, Options, RequestOK, Places, Set!Refuse, Set!Goto
  <1>3. RequestHolds'
    BY <1>0 DEF SetInv, RequestHolds, Set!Refuse, Set!Goto
  <1>4. OptionHolds'
    BY <1>0 DEF SetInv, OptionHolds, Runs, SigningIn, Set!EditKept, Set!Refuse, Set!Goto
  <1>5. AccountHolds'
    BY <1>0 DEF SetInv, AccountHolds, Starting, Runs, SigningIn, Set!Refuse, Set!Goto
  <1>6. PasswordHolds'
    BY <1>0 DEF SetInv, PasswordHolds, Runs, SigningIn, Set!Refuse, Set!Goto
  <1> QED
    BY <1>2, <1>3, <1>4, <1>5, <1>6 DEF SetInv

-----------------------------------------------------------------------------
(* The title's steps.                                                        *)

LEMMA StartKeeps == ASSUME SetInv, Set!Start PROVE SetInv'
  <1>1. Bounds'
    BY SpendKeeps DEF Set!Start, SetInv, SetTypes
  <1>2. SetTypes'
    BY <1>1 DEF SetInv, SetTypes, Booleans, Options, RequestOK, Places, Set!Start, Set!Goto
  <1>3. RequestHolds'
    BY DEF SetInv, RequestHolds, Set!Start, Set!Goto
  <1>4. OptionHolds'
    BY DEF SetInv, OptionHolds, Runs, SigningIn, Set!EditKept, Set!Start, Set!Goto
  <1>5. AccountHolds'
    BY DEF SetInv, AccountHolds, Starting, Runs, SigningIn, Set!Start, Set!Goto
  <1>6. PasswordHolds'
    BY DEF SetInv, PasswordHolds, Runs, SigningIn, Set!Start, Set!Goto
  <1> QED
    BY <1>2, <1>3, <1>4, <1>5, <1>6 DEF SetInv

LEMMA ApplyKeeps == ASSUME SetInv, Set!Apply PROVE SetInv'
  <1>0. setHeld'.option = setPending /\ setHeld'.file = Set!Nothing /\ FileOK(setHeld'.file)
    BY NothingHolds DEF Set!Apply, Set!NotHeld
  <1>1. Bounds'
    BY DEF Set!Apply, SetInv, SetTypes, Bounds
  <1>2. SetTypes'
    BY <1>1, <1>0 DEF SetInv, SetTypes, Booleans, Options, RequestOK, Places, Set!Apply, Set!Goto
  <1>3. RequestHolds'
    BY <1>0 DEF SetInv, RequestHolds, Set!Apply, Set!Goto
  <1>4. OptionHolds'
    BY <1>0 DEF SetInv, OptionHolds, Runs, SigningIn, Set!EditKept, Set!Apply, Set!Goto
  <1>5. AccountHolds'
    BY <1>0 DEF SetInv, AccountHolds, Starting, Runs, SigningIn, Set!Apply, Set!Goto
  <1>6. PasswordHolds'
    BY <1>0 DEF SetInv, PasswordHolds, Runs, SigningIn, Set!Apply, Set!Goto
  <1> QED
    BY <1>2, <1>3, <1>4, <1>5, <1>6 DEF SetInv

LEMMA ApplyWriteKeeps == ASSUME SetInv, Set!ApplyWrite PROVE SetInv'
  <1>1. Bounds'
    BY DEF Set!ApplyWrite, SetInv, SetTypes, Bounds
  <1>2. SetTypes'
    BY <1>1 DEF SetInv, SetTypes, Booleans, Options, RequestOK, Places, Set!ApplyWrite, Set!Goto
  <1>3. RequestHolds'
    BY DEF SetInv, RequestHolds, Set!ApplyWrite, Set!Goto
  <1>4. OptionHolds'
    BY DEF SetInv, OptionHolds, Runs, SigningIn, Set!EditKept, Set!ApplyWrite, Set!Goto
  <1>5. AccountHolds'
    BY DEF SetInv, AccountHolds, Starting, Runs, SigningIn, Set!ApplyWrite, Set!Goto
  <1>6. PasswordHolds'
    BY DEF SetInv, PasswordHolds, Runs, SigningIn, Set!ApplyWrite, Set!Goto
  <1> QED
    BY <1>2, <1>3, <1>4, <1>5, <1>6 DEF SetInv

LEMMA ApplyClearKeeps == ASSUME SetInv, Set!ApplyClear PROVE SetInv'
  <1>0. Set!NoValue \in Set!Values
    BY ValuesAre
  <1>1. Bounds'
    BY DEF Set!ApplyClear, SetInv, SetTypes, Bounds
  <1>2. SetTypes'
    BY <1>1, <1>0 DEF SetInv, SetTypes, Booleans, Options, RequestOK, Places, Set!ApplyClear, Set!Goto
  <1>3. RequestHolds'
    BY <1>0 DEF SetInv, RequestHolds, Set!ApplyClear, Set!Goto
  <1>4. OptionHolds'
    BY <1>0 DEF SetInv, OptionHolds, Runs, SigningIn, Set!EditKept, Set!ApplyClear, Set!Goto
  <1>5. AccountHolds'
    BY <1>0 DEF SetInv, AccountHolds, Starting, Runs, SigningIn, Set!ApplyClear, Set!Goto
  <1>6. PasswordHolds'
    BY <1>0 DEF SetInv, PasswordHolds, Runs, SigningIn, Set!ApplyClear, Set!Goto
  <1> QED
    BY <1>2, <1>3, <1>4, <1>5, <1>6 DEF SetInv

LEMMA ApplyMarkKeeps == ASSUME SetInv, Set!ApplyMark PROVE SetInv'
  <1>1. Bounds'
    <2>1. CASE UNCHANGED setLeft
      BY <2>1 DEF SetInv, SetTypes, Bounds
    <2>2. CASE Set!Spend("fails")
      BY <2>2, SpendKeeps DEF SetInv, SetTypes
    <2> QED
      BY <2>1, <2>2 DEF Set!ApplyMark
  <1>2. SetTypes'
    BY <1>1 DEF SetInv, SetTypes, Booleans, Options, RequestOK, Places, Set!ApplyMark, Set!Marked, Set!Unmarked, Set!Goto
  <1>3. RequestHolds'
    BY DEF SetInv, RequestHolds, Set!ApplyMark, Set!Marked, Set!Unmarked, Set!Goto
  <1>4. OptionHolds'
    BY DEF SetInv, OptionHolds, Runs, SigningIn, Set!EditKept, Set!ApplyMark, Set!Marked, Set!Unmarked, Set!Goto
  <1>5. AccountHolds'
    BY DEF SetInv, AccountHolds, Starting, Runs, SigningIn, Set!ApplyMark, Set!Marked, Set!Unmarked, Set!Goto
  <1>6. PasswordHolds'
    BY DEF SetInv, PasswordHolds, Runs, SigningIn, Set!ApplyMark, Set!Marked, Set!Unmarked, Set!Goto
  <1> QED
    BY <1>2, <1>3, <1>4, <1>5, <1>6 DEF SetInv

LEMMA ReadConfigKeeps == ASSUME SetInv, Set!ReadConfig PROVE SetInv'
  <1>0. /\ setPc = "start" /\ setPc' = "menu" /\ setMem' = Set!Over(setRa, setWeb) /\ setHeld' = Set!NotHeld
        /\ UNCHANGED <<setWeb, setRa, setPending, setProfile, setMarker, setInstalled, setOption,
                       setRequest, setWanted, setSaved, setDisturbed, setMet, setLeft>>
    BY DEF Set!ReadConfig, Set!Goto
  <1>1. FileOK(setRa) /\ FileOK(setWeb) /\ FileOK(setMem') /\ WebShape(setWeb)
    BY <1>0, OverHolds DEF SetInv, SetTypes, RequestHolds
  <1>2. SetTypes'
    <2>1. FileOK(setHeld'.file) /\ setHeld'.option \in Set!Values
      BY <1>0, NothingHolds, ValuesAre DEF Set!NotHeld
    <2> QED
      BY <1>0, <1>1, <2>1 DEF SetInv, SetTypes, Booleans, Options, RequestOK, Places, Bounds
  <1>3. RequestHolds'
    BY <1>0 DEF SetInv, RequestHolds
  <1>4. OptionHolds'
    BY <1>0 DEF SetInv, OptionHolds, Runs, SigningIn, Set!EditKept
  <1>5. /\ setMem'.user = (IF setWeb.user = Set!Unset THEN setRa.user ELSE setWeb.user)
        /\ setMem'.pass = (IF setWeb.pass = Set!Unset THEN setRa.pass ELSE setWeb.pass)
        /\ setMem'.token = (IF setWeb.token = Set!Unset THEN setRa.token ELSE setWeb.token)
    BY <1>0, <1>1, OverHolds
  <1>6. LET over == Set!Over(setMem', setWeb) IN
        over.user = setMem'.user /\ over.pass = setMem'.pass /\ over.token = setMem'.token
    BY <1>1, <1>5, OverHolds
  <1>7. AccountHolds'
    <2>1. ~setMet /\ ~setDisturbed => SignsIn(setMem', setWanted.account)
      BY <1>0 DEF SetInv, AccountHolds, Starting
    <2>2. ~setMet /\ ~setDisturbed => SignsIn(Set!Over(setMem', setWeb), setWanted.account)
      BY <1>6, <2>1 DEF SignsIn
    <2> QED
      BY <1>0, <1>5, <2>1, <2>2 DEF SetInv, AccountHolds, Starting, Runs, SigningIn
  <1>8. PasswordHolds'
    BY <1>0, <1>5 DEF SetInv, PasswordHolds, Runs, SigningIn
  <1> QED
    BY <1>2, <1>3, <1>4, <1>7, <1>8 DEF SetInv

LEMMA SignInKeeps == ASSUME SetInv, Set!SignIn PROVE SetInv'
  <1>0. /\ setPc = "menu" /\ setPc' = "forget" /\ setSaved' = FALSE
        /\ setMem.token \in {Set!Empty, Set!Unset} /\ setMem.pass \in Accounts /\ setMem.pass = setMem.user
        /\ setMem' = [setMem EXCEPT !.token = setMem.pass, !.pass = Set!Empty]
        /\ UNCHANGED <<setWeb, setRa, setPending, setProfile, setMarker, setInstalled, setOption, setHeld,
                       setRequest, setWanted, setDisturbed, setMet, setLeft>>
    BY DEF Set!SignIn, Set!Goto
  <1>1. /\ FileOK(setMem') /\ setMem'.user = setMem.user /\ setMem'.token = setMem.pass
        /\ setMem'.pass = Set!Empty
    <2> DEFINE t == setMem.pass
               q == Set!Empty
    <2>1. FileOK(setMem) /\ t \in Secret /\ q \in Secret /\ setMem' = [setMem EXCEPT !.token = t, !.pass = q]
      BY <1>0 DEF SetInv, SetTypes, Secret
    <2> HIDE DEF t, q
    <2>2. FileOK(setMem') /\ setMem'.user = setMem.user /\ setMem'.token = t /\ setMem'.pass = q
      BY <2>1, KeysAre DEF FileOK
    <2> QED
      BY <2>2 DEF t, q
  <1>2. SetTypes'
    BY <1>0, <1>1 DEF SetInv, SetTypes, Booleans, Options, RequestOK, Places, Bounds
  <1>3. RequestHolds'
    BY <1>0 DEF SetInv, RequestHolds
  <1>4. OptionHolds'
    BY <1>0 DEF SetInv, OptionHolds, Runs, SigningIn, Set!EditKept
  <1>5. AccountHolds'
    <2>1. ~setMet /\ ~setDisturbed =>
            /\ SignsIn(setMem, setWanted.account) /\ SignsIn(Set!Over(setRa, setWeb), setWanted.account)
            /\ SignsIn(Set!Over(setMem, setWeb), setWanted.account)
            /\ setWeb.user = Set!Unset => setMem.user = setRa.user
      BY <1>0, ValuesAre DEF SetInv, AccountHolds, Starting, Runs
    <2>2. ~setMet /\ ~setDisturbed => setMem.user = setWanted.account /\ setMem.pass = setWanted.account
      BY <1>0, <2>1 DEF SignsIn
    <2>3. ~setMet /\ ~setDisturbed => setWeb.user \in {Set!Unset, setWanted.account}
      <3>1. Set!Over(setMem, setWeb).user = (IF setWeb.user = Set!Unset THEN setMem.user ELSE setWeb.user)
        BY OverHolds DEF SetInv, SetTypes
      <3> QED
        BY <2>1, <3>1 DEF SignsIn
    <2> QED
      BY <1>0, <1>1, <2>1, <2>2, <2>3 DEF SetInv, AccountHolds, Starting, Runs, SigningIn
  <1>6. PasswordHolds'
    BY <1>0, <1>1, ValuesAre DEF SetInv, PasswordHolds, Runs, SigningIn
  <1> QED
    BY <1>2, <1>3, <1>4, <1>5, <1>6 DEF SetInv

LEMMA ForgetReadKeeps == ASSUME SetInv, Set!ForgetRead PROVE SetInv'
  <1>0. setHeld'.option = Set!NoValue /\ setHeld'.file = setWeb /\ Set!NoValue \in Set!Values
    BY ValuesAre DEF Set!ForgetRead, Set!NotHeld
  <1>1. Bounds'
    BY DEF Set!ForgetRead, SetInv, SetTypes, Bounds
  <1>2. SetTypes'
    BY <1>1, <1>0 DEF SetInv, SetTypes, Booleans, Options, RequestOK, Places, Set!ForgetRead, Set!Goto
  <1>3. RequestHolds'
    BY <1>0 DEF SetInv, RequestHolds, Set!ForgetRead, Set!Goto
  <1>4. OptionHolds'
    BY <1>0 DEF SetInv, OptionHolds, Runs, SigningIn, Set!EditKept, Set!ForgetRead, Set!Goto
  <1>5. AccountHolds'
    BY <1>0 DEF SetInv, AccountHolds, Starting, Runs, SigningIn, Set!ForgetRead, Set!Goto
  <1>6. PasswordHolds'
    BY <1>0 DEF SetInv, PasswordHolds, Runs, SigningIn, Set!ForgetRead, Set!Goto
  <1> QED
    BY <1>2, <1>3, <1>4, <1>5, <1>6 DEF SetInv

LEMMA ForgetWriteKeeps == ASSUME SetInv, Set!ForgetWrite PROVE SetInv'
  <1>0. /\ setHeld'.option = Set!NoValue /\ setHeld'.file = Set!Nothing /\ FileOK(setHeld'.file)
        /\ Set!NoValue \in Set!Values
        /\ LET k == Set!Kept(setHeld.file) IN
           FileOK(k) /\ k.user = setHeld.file.user /\ k.pass = Set!Unset /\ k.token = Set!Unset
        /\ Set!Unset \notin Accounts
    BY NothingHolds, ValuesAre, WithoutHolds DEF Set!ForgetWrite, Set!NotHeld, Set!Kept, SetInv, SetTypes
  <1>1. Bounds'
    <2>1. CASE UNCHANGED setLeft
      BY <2>1 DEF SetInv, SetTypes, Bounds
    <2>2. CASE Set!Spend("fails")
      BY <2>2, SpendKeeps DEF SetInv, SetTypes
    <2> QED
      BY <2>1, <2>2 DEF Set!ForgetWrite
  <1>2. SetTypes'
    BY <1>1, <1>0 DEF SetInv, SetTypes, Booleans, Options, RequestOK, Places, Set!ForgetWrite, Set!Goto
  <1>3. RequestHolds'
    BY <1>0 DEF SetInv, RequestHolds, WebShape, Set!ForgetWrite, Set!Goto
  <1>4. OptionHolds'
    BY <1>0 DEF SetInv, OptionHolds, Runs, SigningIn, Set!EditKept, Set!ForgetWrite, Set!Goto
  <1>5. AccountHolds'
    BY <1>0 DEF SetInv, RequestHolds, AccountHolds, Starting, Runs, SigningIn, Set!ForgetWrite, Set!Goto
  <1>6. PasswordHolds'
    BY <1>0 DEF SetInv, PasswordHolds, Runs, SigningIn, Set!ForgetWrite, Set!Goto
  <1> QED
    BY <1>2, <1>3, <1>4, <1>5, <1>6 DEF SetInv

LEMMA ForgetOwnKeeps == ASSUME SetInv, Set!ForgetOwn PROVE SetInv'
  <1>0. /\ LET k == Set!Without(setRa, {"pass"}) IN
           FileOK(k) /\ k.user = setRa.user /\ k.pass = Set!Unset
        /\ Set!Unset \notin Accounts
    BY ValuesAre, WithoutHolds DEF SetInv, SetTypes
  <1>1. Bounds'
    <2>1. CASE UNCHANGED setLeft
      BY <2>1 DEF SetInv, SetTypes, Bounds
    <2>2. CASE Set!Spend("fails")
      BY <2>2, SpendKeeps DEF SetInv, SetTypes
    <2> QED
      BY <2>1, <2>2 DEF Set!ForgetOwn
  <1>2. SetTypes'
    BY <1>1, <1>0 DEF SetInv, SetTypes, Booleans, Options, RequestOK, Places, Set!ForgetOwn, Set!Goto
  <1>3. RequestHolds'
    BY <1>0 DEF SetInv, RequestHolds, Set!ForgetOwn, Set!Goto
  <1>4. OptionHolds'
    BY <1>0 DEF SetInv, OptionHolds, Runs, SigningIn, Set!EditKept, Set!ForgetOwn, Set!Goto
  <1>5. AccountHolds'
    <2>1. setPc = "forget ra" /\ setPc' = "play" /\ setRa'.user = setRa.user
          /\ UNCHANGED <<setMem, setWeb, setWanted, setMet, setDisturbed, setRequest>>
      BY <1>0 DEF Set!ForgetOwn, Set!Goto
    <2>2. ~setMet /\ ~setDisturbed =>
            /\ setMem.user = setWanted.account /\ setMem.token = setWanted.account
            /\ setWeb.user \in {Set!Unset, setWanted.account}
      BY <2>1 DEF SetInv, AccountHolds, SigningIn
    <2>3. WebShape(setWeb) /\ setWanted.account \in Accounts
      BY DEF SetInv, SetTypes, RequestHolds
    <2>4. LET over == Set!Over(setMem, setWeb) IN
          /\ over.user = (IF setWeb.user = Set!Unset THEN setMem.user ELSE setWeb.user)
          /\ over.pass = (IF setWeb.pass = Set!Unset THEN setMem.pass ELSE setWeb.pass)
          /\ over.token = (IF setWeb.token = Set!Unset THEN setMem.token ELSE setWeb.token)
      BY OverHolds DEF SetInv, SetTypes
    <2>5. ~setMet /\ ~setDisturbed => SignsIn(Set!Over(setMem, setWeb), setWanted.account)
      BY <1>0, <2>2, <2>3, <2>4 DEF SignsIn, WebShape
    <2> QED
      BY <2>1, <2>5 DEF SetInv, AccountHolds, Starting, Runs, SigningIn
  <1>6. PasswordHolds'
    BY <1>0 DEF SetInv, PasswordHolds, Runs, SigningIn, Set!ForgetOwn, Set!Goto
  <1> QED
    BY <1>2, <1>3, <1>4, <1>5, <1>6 DEF SetInv

LEMMA LoadCoreKeeps == ASSUME SetInv, Set!LoadCore PROVE SetInv'
  <1>0. Set!NoValue \in Set!Values /\ 0 \in Set!Values /\ 0 # Set!NoValue
    BY ValuesAre
  <1>1. Bounds'
    <2>1. CASE UNCHANGED setLeft
      BY <2>1 DEF SetInv, SetTypes, Bounds
    <2>2. CASE Set!Spend("fails")
      BY <2>2, SpendKeeps DEF SetInv, SetTypes
    <2> QED
      BY <2>1, <2>2 DEF Set!LoadCore, Set!SetAside
  <1>2. SetTypes'
    BY <1>1, <1>0 DEF SetInv, SetTypes, Booleans, Options, RequestOK, Places, Set!LoadCore, Set!SetAside
  <1>3. RequestHolds'
    BY <1>0 DEF SetInv, RequestHolds, Set!LoadCore, Set!SetAside
  <1>4. OptionHolds'
    BY <1>0 DEF SetInv, OptionHolds, Runs, SigningIn, Set!EditKept, Set!LoadCore, Set!SetAside
  <1>5. AccountHolds'
    BY <1>0 DEF SetInv, AccountHolds, Starting, Runs, SigningIn, Set!LoadCore, Set!SetAside
  <1>6. PasswordHolds'
    BY <1>0 DEF SetInv, PasswordHolds, Runs, SigningIn, Set!LoadCore, Set!SetAside
  <1> QED
    BY <1>2, <1>3, <1>4, <1>5, <1>6 DEF SetInv

LEMMA QuitKeeps == ASSUME SetInv, Set!Quit PROVE SetInv'
  <1>0. FileOK(Set!Nothing) /\ Set!NoValue \in Set!Values
    BY NothingHolds, ValuesAre
  <1>1. Bounds'
    BY DEF Set!Quit, SetInv, SetTypes, Bounds
  <1>2. SetTypes'
    BY <1>1, <1>0 DEF SetInv, SetTypes, Booleans, Options, RequestOK, Places, Set!Quit, Set!Goto
  <1>3. RequestHolds'
    BY <1>0 DEF SetInv, RequestHolds, Set!Quit, Set!Goto
  <1>4. OptionHolds'
    BY <1>0 DEF SetInv, OptionHolds, Runs, SigningIn, Set!EditKept, Set!Quit, Set!Goto
  <1>5. AccountHolds'
    BY <1>0 DEF SetInv, AccountHolds, Starting, Runs, SigningIn, Set!Quit, Set!Goto
  <1>6. PasswordHolds'
    BY <1>0 DEF SetInv, PasswordHolds, Runs, SigningIn, Set!Quit, Set!Goto
  <1> QED
    BY <1>2, <1>3, <1>4, <1>5, <1>6 DEF SetInv

LEMMA CoreChangesKeeps == ASSUME SetInv, Set!CoreChanges PROVE SetInv'
  <1>1. Bounds'
    BY SpendKeeps DEF Set!CoreChanges, SetInv, SetTypes
  <1>2. SetTypes'
    BY <1>1 DEF SetInv, SetTypes, Booleans, Options, RequestOK, Places, Set!CoreChanges, Set!Goto
  <1>3. RequestHolds'
    BY DEF SetInv, RequestHolds, Set!CoreChanges, Set!Goto
  <1>4. OptionHolds'
    BY DEF SetInv, OptionHolds, Runs, SigningIn, Set!EditKept, Set!CoreChanges, Set!Goto
  <1>5. AccountHolds'
    BY DEF SetInv, AccountHolds, Starting, Runs, SigningIn, Set!CoreChanges, Set!Goto
  <1>6. PasswordHolds'
    BY DEF SetInv, PasswordHolds, Runs, SigningIn, Set!CoreChanges, Set!Goto
  <1> QED
    BY <1>2, <1>3, <1>4, <1>5, <1>6 DEF SetInv

LEMMA CrashKeeps == ASSUME SetInv, Set!Crash PROVE SetInv'
  <1>0. /\ FileOK(Set!Nothing) /\ Set!NoValue \in Set!Values
        /\ setHeld'.option = Set!NoValue /\ setHeld'.file = Set!Nothing
    BY NothingHolds, ValuesAre DEF Set!Crash, Set!NotHeld
  <1>1. Bounds'
    BY SpendKeeps DEF Set!Crash, SetInv, SetTypes
  <1>2. SetTypes'
    BY <1>1, <1>0 DEF SetInv, SetTypes, Booleans, Options, RequestOK, Places, Set!Crash, Set!Goto
  <1>3. RequestHolds'
    BY <1>0 DEF SetInv, RequestHolds, Set!Crash, Set!Goto
  <1>4. OptionHolds'
    BY <1>0 DEF SetInv, OptionHolds, Runs, SigningIn, Set!EditKept, Set!Crash, Set!Goto
  <1>5. AccountHolds'
    BY <1>0 DEF SetInv, SetTypes, Places, AccountHolds, Starting, Runs, SigningIn, Set!Crash, Set!Goto
  <1>6. PasswordHolds'
    BY <1>0 DEF SetInv, PasswordHolds, Runs, SigningIn, Set!Crash, Set!Goto
  <1> QED
    BY <1>2, <1>3, <1>4, <1>5, <1>6 DEF SetInv

LEMMA LoadKeeps == ASSUME SetInv, NEW p, NEW scope, Set!Load(p, scope) PROVE SetInv'
  <1>1. Bounds'
    BY DEF Set!Load, SetInv, SetTypes, Bounds
  <1>2. SetTypes'
    BY <1>1 DEF SetInv, SetTypes, Booleans, Options, RequestOK, Places, Set!Load, Set!Goto
  <1>3. RequestHolds'
    BY DEF SetInv, RequestHolds, Set!Load, Set!Goto
  <1>4. OptionHolds'
    BY DEF SetInv, OptionHolds, Runs, SigningIn, Set!EditKept, Set!Load, Set!Goto
  <1>5. AccountHolds'
    BY DEF SetInv, AccountHolds, Starting, Runs, SigningIn, Set!Load, Set!Goto
  <1>6. PasswordHolds'
    BY DEF SetInv, PasswordHolds, Runs, SigningIn, Set!Load, Set!Goto
  <1> QED
    BY <1>2, <1>3, <1>4, <1>5, <1>6 DEF SetInv

-----------------------------------------------------------------------------
(* The answer to an edit, which is when the files change.                    *)

\* Of an account: its name and password, with the token it had if it was the account before.
LEMMA AnswerAccount ==
  ASSUME SetInv, Set!Answer, setRequest.kind = "account", ~setMet', ~setDisturbed'
  PROVE  /\ setPc \in Starting \cup {"menu"} => SignsIn(Set!Over(setRa, setWeb'), setWanted'.account)
         /\ setPc \in {"menu", "play"} => SignsIn(Set!Over(setMem, setWeb'), setWanted'.account)
         /\ setWeb'.user # Set!Unset /\ setPc \notin SigningIn
         /\ setPc = "menu" => setMem.token \in Accounts
  <1> DEFINE a == setRequest.account
  <1>1. /\ setWeb' = setRequest.to /\ setWanted'.account = a /\ ~setMet /\ ~setDisturbed /\ ~Set!Signs
    BY DEF Set!Answer
  <1>2. /\ FileOK(setWeb') /\ WebShape(setWeb') /\ a \in Accounts /\ setWeb'.user = a /\ setWeb'.pass = a
        /\ setWeb'.token \in {setWeb.token, Set!Empty}
        /\ setWeb'.token # Set!Empty => a = setWanted.account
    BY <1>1 DEF SetInv, SetTypes, RequestOK, RequestHolds, AccountHolds
  <1>3. FileOK(setWeb) /\ WebShape(setWeb) /\ FileOK(setRa) /\ FileOK(setMem)
    BY DEF SetInv, SetTypes, RequestHolds
  <1>4. setPc \notin SigningIn /\ (setPc = "menu" => setMem.token \in Accounts)
    BY <1>1 DEF Set!Signs, SigningIn
  <1> HIDE DEF a
  <1>5. ASSUME NEW f, FileOK(f), SignsIn(Set!Over(f, setWeb), setWanted.account)
        PROVE  SignsIn(Set!Over(f, setWeb'), a)
    <2>1. LET over == Set!Over(f, setWeb') IN
          /\ over.user = a /\ over.pass = a
          /\ over.token = (IF setWeb'.token = Set!Unset THEN f.token ELSE setWeb'.token)
      <3> DEFINE g == setWeb'
      <3>1. FileOK(g) /\ FileOK(f) /\ g.user = a /\ g.pass = a /\ a # Set!Unset
        BY <1>2, <1>5, ValuesAre
      <3> HIDE DEF g
      <3>2. LET over == Set!Over(f, g) IN
            over.user = a /\ over.pass = a /\ over.token = (IF g.token = Set!Unset THEN f.token ELSE g.token)
        BY <3>1, OverHolds
      <3> QED
        BY <3>2 DEF g
    <2>2. CASE setWeb'.token = Set!Empty
      BY <2>1, <2>2 DEF SignsIn
    <2>3. CASE setWeb'.token # Set!Empty
      <3>1. a = setWanted.account /\ setWeb'.token = Set!Unset /\ setWeb.token = Set!Unset
        BY <1>2, <1>3, <2>3 DEF WebShape
      <3>2. Set!Over(f, setWeb).token = f.token
        BY <1>3, <1>5, <3>1, OverHolds
      <3>3. f.token = a \/ f.token \in {Set!Unset, Set!Empty}
        BY <1>5, <3>1, <3>2 DEF SignsIn
      <3> QED
        BY <2>1, <3>1, <3>3 DEF SignsIn
    <2> QED
      BY <2>2, <2>3
  <1>6. /\ setPc \in Starting \cup {"menu"} => SignsIn(Set!Over(setRa, setWeb), setWanted.account)
        /\ setPc \in {"menu", "play"} => SignsIn(Set!Over(setMem, setWeb), setWanted.account)
    BY <1>1 DEF SetInv, AccountHolds
  <1> QED
    BY <1>1, <1>2, <1>3, <1>4, <1>5, <1>6, ValuesAre

\* Of a quick setting: webui.cfg's account stays.
LEMMA AnswerQuick ==
  ASSUME SetInv, Set!Answer, setRequest.kind = "quick", ~setMet', NEW f, FileOK(f), NEW a
  PROVE  /\ SignsIn(Set!Over(f, setWeb), a) => SignsIn(Set!Over(f, setWeb'), a)
         /\ setWeb'.user = setWeb.user /\ setWeb'.pass = setWeb.pass
  <1>1. /\ setWeb' = setRequest.to /\ ~setMet
    BY DEF Set!Answer
  <1>2. /\ FileOK(setWeb') /\ FileOK(setWeb) /\ setWeb'.user = setWeb.user /\ setWeb'.pass = setWeb.pass
        /\ setWeb'.token = setWeb.token
    BY <1>1 DEF SetInv, SetTypes, RequestOK, RequestHolds
  <1>3. LET over == Set!Over(f, setWeb)
            now  == Set!Over(f, setWeb') IN
        now.user = over.user /\ now.pass = over.pass /\ now.token = over.token
    BY <1>2, OverHolds
  <1> QED
    BY <1>2, <1>3 DEF SignsIn

LEMMA AnswerKeeps == ASSUME SetInv, Set!Answer PROVE SetInv'
  <1>1. /\ setRequest.kind \in {"account", "quick", "options"} /\ setRequest'.kind = "none"
        /\ setRequest' = Set!Idle
        /\ setWanted'.account = setRequest.account /\ setWanted'.option = setRequest.option
        /\ setSaved' = (setSaved \/ setRequest.kind = "account")
        /\ setDisturbed' = (setDisturbed \/ (setRequest.kind = "account" /\ Set!Signs))
        /\ setSaved' \in BOOLEAN /\ setDisturbed' \in BOOLEAN
        /\ UNCHANGED <<setRa, setProfile, setMarker, setInstalled, setPc, setHeld, setMem, setOption,
                       setMet, setLeft>>
    BY DEF Set!Answer, Set!Idle, SetInv, SetTypes, RequestOK, Booleans
  <1>2. CASE setRequest.kind = "options"
    <2>1. setPending' = setRequest.to /\ UNCHANGED setWeb
      BY <1>2 DEF Set!Answer
    <2>2. SetTypes'
      BY <1>1, <1>2, <2>1 DEF SetInv, SetTypes, Booleans, Options, RequestOK, Bounds
    <2>3. RequestHolds'
      BY <1>1, <1>2, <2>1 DEF SetInv, RequestHolds
    <2>4. OptionHolds'
      BY <1>1, <1>2, <2>1 DEF SetInv, RequestHolds, OptionHolds, Set!EditKept
    <2>5. AccountHolds'
      BY <1>1, <1>2, <2>1 DEF SetInv, RequestHolds, AccountHolds
    <2>6. PasswordHolds'
      BY <1>1, <1>2, <2>1 DEF SetInv, PasswordHolds
    <2> QED
      BY <2>2, <2>3, <2>4, <2>5, <2>6 DEF SetInv
  <1>3. CASE setRequest.kind \in {"account", "quick"}
    <2>1. setWeb' = setRequest.to /\ UNCHANGED setPending /\ setWanted'.option = setWanted.option
      BY <1>1, <1>3 DEF Set!Answer, SetInv, RequestHolds
    <2>2. SetTypes'
      BY <1>1, <1>3, <2>1 DEF SetInv, SetTypes, Booleans, Options, RequestOK, Bounds
    <2>3. RequestHolds'
      BY <1>1, <1>3, <2>1 DEF SetInv, RequestHolds
    <2>4. OptionHolds'
      BY <1>1, <1>3, <2>1 DEF SetInv, OptionHolds, Set!EditKept
    <2>5. AccountHolds'
      <3>1. CASE setRequest.kind = "account"
        BY <1>1, <3>1, AnswerAccount
           DEF SetInv, SetTypes, AccountHolds, Starting, Runs, SigningIn, Places
      <3>2. CASE setRequest.kind = "quick"
        <4>1. setWanted'.account = setWanted.account /\ FileOK(setRa) /\ FileOK(setMem)
          BY <1>1, <3>2 DEF SetInv, SetTypes, RequestHolds
        <4>2. ~setMet => /\ SignsIn(Set!Over(setRa, setWeb), setWanted.account) =>
                             SignsIn(Set!Over(setRa, setWeb'), setWanted.account)
                         /\ SignsIn(Set!Over(setMem, setWeb), setWanted.account) =>
                             SignsIn(Set!Over(setMem, setWeb'), setWanted.account)
                         /\ setWeb'.user = setWeb.user
          BY <1>1, <3>2, <4>1, AnswerQuick
        <4> QED
          BY <1>1, <3>2, <4>1, <4>2 DEF SetInv, AccountHolds
      <3> QED
        BY <1>3, <3>1, <3>2
    <2>6. PasswordHolds'
      <3>1. setRequest.kind = "quick" /\ ~setMet => setWeb'.pass = setWeb.pass
        BY <1>1, AnswerQuick DEF SetInv, SetTypes
      <3> QED
        BY <1>1, <1>3, <3>1 DEF SetInv, PasswordHolds
    <2> QED
      BY <2>2, <2>3, <2>4, <2>5, <2>6 DEF SetInv
  <1> QED
    BY <1>1, <1>2, <1>3

-----------------------------------------------------------------------------
(* Every step, and what the invariant says.                                  *)

LEMMA SetStep == ASSUME SetInv, Set!Next PROVE SetInv'
  <1>1. CASE Set!Edit
    BY <1>1, EditQuickKeeps, LoadKeeps, EditOptionKeeps, EditAccountKeeps DEF Set!Edit
  <1>2. CASE Set!Answer \/ Set!Refuse
    BY <1>2, AnswerKeeps, RefuseKeeps
  <1>3. CASE Set!Start \/ Set!Apply \/ Set!ApplyWrite \/ Set!ApplyMark \/ Set!ApplyClear \/ Set!ReadConfig
    BY <1>3, StartKeeps, ApplyKeeps, ApplyWriteKeeps, ApplyMarkKeeps, ApplyClearKeeps, ReadConfigKeeps
  <1>4. CASE Set!SignIn \/ Set!ForgetRead \/ Set!ForgetWrite \/ Set!ForgetOwn
    BY <1>4, SignInKeeps, ForgetReadKeeps, ForgetWriteKeeps, ForgetOwnKeeps
  <1>5. CASE Set!LoadCore \/ Set!Quit \/ Set!CoreChanges \/ Set!Crash
    BY <1>5, LoadCoreKeeps, QuitKeeps, CoreChangesKeeps, CrashKeeps
  <1> QED
    BY <1>1, <1>2, <1>3, <1>4, <1>5 DEF Set!Next

LEMMA SetSays == ASSUME SetInv PROVE Set!TypeOK /\ Set!EditKept /\ Set!AccountKept /\ Set!PasswordForgotten
  <1>1. FileOK(setWeb) /\ FileOK(setRa) /\ FileOK(setMem)
    BY DEF SetInv, SetTypes
  <1>2. Set!TypeOK
    <2>1. \A f \in {setWeb, setRa, setMem} :
            /\ DOMAIN f = Set!Keys /\ f.vol \in Set!Values /\ f.user \in Accounts \cup {Set!Unset}
            /\ {f.pass, f.token} \subseteq Accounts \cup {Set!Unset, Set!Empty}
      BY <1>1 DEF FileOK, Signed, Secret
    <2>2. \A b \in DOMAIN setLeft : setLeft[b] \in Nat
      <3>1. setLeft.edits \in Nat
        <4>1. setLeft.edits \in 0 .. MaxEdits /\ MaxEdits \in Nat
          BY ValuesAre DEF SetInv, SetTypes, Bounds
        <4> QED
          BY <4>1
      <3> QED
        BY <3>1 DEF SetInv, SetTypes, Bounds
    <2> QED
      BY <2>1, <2>2 DEF Set!TypeOK, SetInv, SetTypes, Booleans, Options, RequestOK, Places
  <1>3. Set!EditKept
    BY DEF SetInv, OptionHolds
  <1>4. Set!AccountKept
    <2>1. ~setMet /\ ~setDisturbed /\ setPc = "off" => SignsIn(Set!Over(setRa, setWeb), setWanted.account)
      BY DEF SetInv, AccountHolds, Starting
    <2> QED
      BY <2>1 DEF Set!AccountKept, Set!AccountAlwaysKept, SignsIn
  <1>5. Set!PasswordForgotten
    BY DEF SetInv, PasswordHolds, SigningIn, Set!PasswordForgotten
  <1> QED
    BY <1>2, <1>3, <1>4, <1>5

SetPartInv == part = "settings" => SetInv

LEMMA MCSettings == MCSpec => []SetPartInv
  <1>1. MCInit => SetPartInv
    BY SetInitHolds DEF MCInit, SetPartInv
  <1>2. SetPartInv /\ [MCNext]_MCVars => SetPartInv'
    <2> SUFFICES ASSUME SetPartInv, [MCNext]_MCVars, part' = "settings" PROVE SetInv'
      BY DEF SetPartInv
    <2>1. CASE UNCHANGED MCVars
      <3>1. UNCHANGED part /\ UNCHANGED SetVars
        BY <2>1 DEF MCVars
      <3>2. SetInv
        BY <3>1 DEF SetPartInv
      <3>3. SetTypes'
        BY <3>1, <3>2 DEF SetVars, SetInv, SetTypes, Booleans, Options, RequestOK, Bounds
      <3>4. RequestHolds' /\ OptionHolds'
        BY <3>1, <3>2 DEF SetVars, SetInv, RequestHolds, OptionHolds, Set!EditKept
      <3>5. AccountHolds' /\ PasswordHolds'
        BY <3>1, <3>2 DEF SetVars, SetInv, AccountHolds, PasswordHolds
      <3> QED
        BY <3>3, <3>4, <3>5 DEF SetInv
    <2>2. CASE MCNext
      <3>1. part = "settings"
        BY <2>2 DEF MCNext
      <3>2. Set!Next
        BY <2>2, <3>1 DEF MCNext
      <3> QED
        BY <3>1, <3>2, SetStep DEF SetPartInv
    <2> QED
      BY <2>1, <2>2
  <1> QED
    BY <1>1, <1>2, PTL DEF MCSpec

\* However RetroArch's own saves, its crashes and the pages' edits interleave, an option the
\* page was told is saved reaches the core, an account it saved signs in, and the password it
\* signed in with stays in no file (webui_ps5.cpp, ps5_cheevos.c); for any accounts, pages
\* and bounds.
THEOREM SettingsKept == MCSpec => []SettingsAreKept
  <1>1. SetPartInv => SettingsAreKept
    BY SetSays DEF SetPartInv, SettingsAreKept
  <1> QED
    BY <1>1, MCSettings, PTL
=============================================================================
